---- MODULE Spec2Model ----
(***************************************************************************)
(* Model of sortoi's core: the classification scheduler                   *)
(* (CategorizationService), the result cache (SQLiteDatabaseService),     *)
(* the file mover (FileOrganizer + ConflictResolver) and the operation    *)
(* journal (HistoryService).                                              *)
(***************************************************************************)
EXTENDS Integers, Sequences, FiniteSets, TLC

(* ---------------------------------------------------------------------- *)
(* Bounds of the model                                                    *)
(* ---------------------------------------------------------------------- *)
\* files returned by the scan in the single-run specification
NumFiles == 3
\* files returned by the scan in the two-run specification
NumFilesRuns == 1
\* files returned by the scan in the specification of single items
NumFilesItem == 2
\* distinct contents a file can have (its fingerprint follows its content)
NumContents == 2

(* ---------------------------------------------------------------------- *)
(* Program constants                                                      *)
(* ---------------------------------------------------------------------- *)
MAX_CONCURRENCY == 5
MAX_RETRIES == 3
BASE_DELAY_MS == 1000
MAX_DELAY_MS == 10000

\* the reasons classifyError can return
ErrClasses == {"network", "api_limit", "auth", "api_error", "unknown"}
\* categories the oracle answers with
Categories == {"Documents", "Images"}
\* what generateObject can hand back for z.string(): the empty string too
OracleResponses == Categories \cup {""}
\* option values of options.concurrency; 0 stands for "not given"
ConcurrencyOptions == {0, 1, 2}

VARIABLES
  \* ---- classification scheduler ----
  files,          \* the paths returned by fileScanner.scan
  maxRuns,        \* how many categorizeDirectory calls the scenario makes
  optConcurrency, \* options.concurrency (0: absent)
  hasCache,       \* a databaseService was passed to the constructor
  hasTelemetry,   \* a telemetryService was passed to the constructor
  faultSites,     \* the awaited calls the environment lets reject
  content,        \* file -> content of the file on disk
  run,            \* number of the categorizeDirectory call in progress
  phase,          \* "idle" | "running" | "returned"
  pc,             \* file -> position of its work item
  attempt,        \* file -> loop variable of categorizeSingleFileWithRetry
  hash,           \* file -> the hash computed in the current attempt
  pending,        \* file -> the oracle's answer awaiting the cache store
  cache,          \* table categorizations: <<path, hash>> -> category
  outcome,        \* file -> what its promise resolved to (<<>>: unresolved)
  returned,       \* the list categorizeDirectory returned
  failReports,    \* file -> reasons passed to recordFailure / output.error
  telemetry,      \* file -> number of reportUnknownError calls
  reports,        \* file -> number of telemetry reports written to disk
  waits,          \* file -> the delays awaited so far in this run
  oracleCalls,    \* file -> llmClient.categorize calls in this run
  cacheWrites,    \* file -> setCachedCategorization calls that completed
  faults,         \* file -> classes of the failures of this run, in order
  prev            \* what the previous run left: hashes, calls, results

catVars == <<files, maxRuns, optConcurrency, hasCache, hasTelemetry, faultSites, content,
             run, phase, pc, attempt, hash, pending, cache, outcome, returned,
             failReports, telemetry, reports, waits, oracleCalls, cacheWrites,
             faults, prev>>


VARIABLES
  \* ---- filesystem, mover and journal ----
  fsFiles,     \* path -> content, for every regular file
  fsDirs,      \* the directories
  sessions,    \* HistoryService.sessions: id -> OperationHistory
  org,         \* the organize call and its position
  rb,          \* the rollback calls and their positions
  envChanges   \* files removed by somebody else

orgVars == <<fsFiles, fsDirs, sessions, org, rb, envChanges>>

VARIABLES
  \* ---- direct callers of ConflictResolver and SQLiteDatabaseService ----
  rs,          \* resolve requests in progress, each followed by its rename
  dbCalls      \* the get/set calls made on the cache, with their results

apiVars == <<rs, dbCalls>>

VARIABLES
  \* ---- HistoryService instances and the history document they share ----
  disk,        \* history.json: absent, or a version and the sessions saved
  mem,         \* the session map of each HistoryService instance
  nextId,      \* the next session id startSession hands out
  reversals,   \* per session, how many times rollback ran its reversal loop
  saved,       \* the sessions some instance has written with save()
  jlast,       \* the last HistoryService call and the map it found
  loaded,      \* the instances that called load() since they were built
  blind        \* some instance saved without having loaded

jrVars == <<disk, mem, nextId, reversals, saved, jlast, loaded, blind>>

VARIABLES
  \* ---- a call of PathValidator.sanitizeAndValidate ----
  pv           \* its input, the platform, and what it returned or threw

VARIABLES
  \* ---- a failure on its way through GeminiClient and classifyError ----
  ce,          \* the failure, the paths it is raised for, and the classes
  \* ---- a call of FileScanner.scan ----
  sc,          \* the directory's entries and what scan returned or threw
  \* ---- calls of getFileHash ----
  fh           \* the files hashed and their fingerprints

fnVars == <<pv, ce, sc, fh>>

vars == <<catVars, orgVars, apiVars, jrVars, fnVars>>

(* ---------------------------------------------------------------------- *)
(* Helpers                                                                *)
(* ---------------------------------------------------------------------- *)
\* the empty string as a hash (falsy in the code's tests)
NoHash == <<>>
\* what a promise that resolved to null carries
NoFile == [path |-> 0, category |-> "none", hash |-> NoHash]

\* getFileHash: a digest of the content
getFileHash(c) == <<"sha256", c>>

\* the awaited calls of the try block
TrySites == {"hashing", "lookup", "classifying", "storing"}

\* options.concurrency || LIMITS.MAX_CONCURRENCY
Limit == IF optConcurrency = 0 THEN MAX_CONCURRENCY ELSE optConcurrency

\* work items p-limit has started and that have not settled
Admitted == {f \in files : pc[f] \notin {"queued", "done", "failed"}}

\* calls of llmClient.categorize that have not settled
InFlight == {f \in files : pc[f] = "classifying"}

RECURSIVE SeqOfSet(_)
SeqOfSet(S) ==
  IF S = {} THEN <<>>
  ELSE LET m == CHOOSE x \in S : \A y \in S : x <= y
       IN <<m>> \o SeqOfSet(S \ {m})

\* results.filter(result => result !== null), in the order of files
FilterNonNull(out) ==
  LET ok == {f \in files : out[f] # <<>> /\ out[f][1].ok}
      order == SeqOfSet(ok)
  IN [i \in 1..Len(order) |-> out[order[i]][1].file]

NoPrev == [f \in files |-> [hash |-> NoHash, calls |-> 0,
                            writes |-> 0, category |-> "none"]]

(* ---------------------------------------------------------------------- *)
(* Initial states                                                         *)
(* ---------------------------------------------------------------------- *)
CatInit(n, runs, sites) ==
  /\ files = 1..n
  /\ faultSites = sites
  /\ maxRuns = runs
  /\ optConcurrency \in ConcurrencyOptions
  /\ hasCache \in BOOLEAN
  /\ hasTelemetry \in BOOLEAN
  /\ content = [f \in 1..n |-> 1]
  /\ run = 0
  /\ phase = "idle"
  /\ pc = [f \in 1..n |-> "queued"]
  /\ attempt = [f \in 1..n |-> 0]
  /\ hash = [f \in 1..n |-> NoHash]
  /\ pending = [f \in 1..n |-> "none"]
  /\ cache = <<>>
  /\ outcome = [f \in 1..n |-> <<>>]
  /\ returned = <<>>
  /\ failReports = [f \in 1..n |-> <<>>]
  /\ telemetry = [f \in 1..n |-> 0]
  /\ reports = [f \in 1..n |-> 0]
  /\ waits = [f \in 1..n |-> <<>>]
  /\ oracleCalls = [f \in 1..n |-> 0]
  /\ cacheWrites = [f \in 1..n |-> 0]
  /\ faults = [f \in 1..n |-> <<>>]
  /\ prev = [f \in 1..n |-> [hash |-> NoHash, calls |-> 0,
                             writes |-> 0, category |-> "none"]]

(* ---------------------------------------------------------------------- *)
(* categorizeDirectory                                                    *)
(* ---------------------------------------------------------------------- *)
\* the category the previous run returned for f, "none" when it returned none
ReturnedCategory(f) ==
  IF outcome[f] # <<>> /\ outcome[f][1].ok
  THEN outcome[f][1].file.category ELSE "none"

\* scan, pLimit(...), files.map(limit(...)): every file queued
CategorizeDirectory ==
  /\ phase \in {"idle", "returned"}
  /\ run < maxRuns
  /\ run' = run + 1
  /\ phase' = "running"
  /\ IF run = 0
     THEN /\ UNCHANGED content
          /\ prev' = NoPrev
     ELSE /\ content' \in [files -> 1..NumContents]
          /\ prev' = [f \in files |->
                        [hash |-> getFileHash(content[f]),
                         calls |-> oracleCalls[f],
                         writes |-> cacheWrites[f],
                         category |-> ReturnedCategory(f)]]
  /\ pc' = [f \in files |-> "queued"]
  /\ attempt' = [f \in files |-> 0]
  /\ hash' = [f \in files |-> NoHash]
  /\ pending' = [f \in files |-> "none"]
  /\ outcome' = [f \in files |-> <<>>]
  /\ returned' = <<>>
  /\ failReports' = [f \in files |-> <<>>]
  /\ telemetry' = [f \in files |-> 0]
  /\ reports' = [f \in files |-> 0]
  /\ waits' = [f \in files |-> <<>>]
  /\ oracleCalls' = [f \in files |-> 0]
  /\ cacheWrites' = [f \in files |-> 0]
  /\ faults' = [f \in files |-> <<>>]
  /\ UNCHANGED <<files, maxRuns, optConcurrency, hasCache, hasTelemetry,
                 faultSites, cache>>
  /\ UNCHANGED <<orgVars, apiVars, jrVars, fnVars>>

\* a limiter that never hands out a slot
SlotNeverFree == FALSE

SlotFreeOffByOne == Cardinality(Admitted) <= Limit

\* p-limit's admission test: a slot is free
SlotFree == Cardinality(Admitted) < Limit

\* p-limit starts the next queued task (FIFO) when a slot is free; the task
\* enters the retry loop with attempt = 1 and calls getFileHash
Admit(f) ==
  /\ phase = "running"
  /\ pc[f] = "queued"
  /\ \A g \in files : g < f => pc[g] # "queued"
  /\ SlotFree
  /\ pc' = [pc EXCEPT ![f] = "hashing"]
  /\ attempt' = [attempt EXCEPT ![f] = 1]
  /\ UNCHANGED <<files, maxRuns, optConcurrency, hasCache, hasTelemetry,
                 faultSites, content, run, phase, hash, pending, cache, outcome, returned,
                 failReports, telemetry, reports, waits, oracleCalls, cacheWrites, faults, prev>>
  /\ UNCHANGED <<orgVars, apiVars, jrVars, fnVars>>

CacheGetIgnoringHash(path, h) ==
  IF \E k \in DOMAIN cache : k[1] = path
  THEN cache[CHOOSE k \in DOMAIN cache : k[1] = path] ELSE "none"

CacheGetAlwaysMiss(path, h) == "none"

\* getCachedCategorization: null without a hash or without a row
CacheGet(path, h) ==
  IF h = NoHash THEN "none"
  ELSE IF <<path, h>> \in DOMAIN cache THEN cache[<<path, h>>]
  ELSE "none"

CachePutByPath(file) ==
  IF file.hash = NoHash THEN cache
  ELSE [k \in {q \in DOMAIN cache : q[1] # file.path}
               \cup {<<file.path, file.hash>>} |->
          IF k = <<file.path, file.hash>> THEN file.category ELSE cache[k]]

\* setCachedCategorization: INSERT OR REPLACE, a no-op without a hash
CachePut(file) ==
  IF file.hash = NoHash THEN cache
  ELSE [k \in DOMAIN cache \cup {<<file.path, file.hash>>} |->
          IF k = <<file.path, file.hash>> THEN file.category ELSE cache[k]]

ShouldRetryAnyClass(cls, att) == att < MAX_RETRIES

ShouldRetryOnceMore(cls, att) == cls = "network" /\ att <= MAX_RETRIES

\* the retry test of the catch block
ShouldRetry(cls, att) == cls = "network" /\ att < MAX_RETRIES

\* the argument of this.delay
BackoffDelay(att) == BASE_DELAY_MS * att

\* the task returns a file: progress.increment, recordSuccess, return
Succeed(f, file) ==
  /\ pc' = [pc EXCEPT ![f] = "done"]
  /\ outcome' = [outcome EXCEPT ![f] = <<[ok |-> TRUE, file |-> file]>>]

FailSilently(f, cls) ==
  /\ pc' = [pc EXCEPT ![f] = "failed"]
  /\ outcome' = [outcome EXCEPT ![f] = <<[ok |-> FALSE, file |-> NoFile]>>]
  /\ UNCHANGED failReports

\* the end of the catch block: recordFailure, output.error, return null
Fail(f, cls) ==
  /\ pc' = [pc EXCEPT ![f] = "failed"]
  /\ outcome' = [outcome EXCEPT ![f] = <<[ok |-> FALSE, file |-> NoFile]>>]
  /\ failReports' = [failReports EXCEPT ![f] = Append(@, cls)]

\* a catch block that reports failures of every class
ShouldReportAnyClass(cls) == hasTelemetry

\* the telemetry test of the catch block
ShouldReport(cls) == cls = "unknown" /\ hasTelemetry

\* the catch block, up to its first await or its return
Catch(f, cls) ==
  /\ faults' = [faults EXCEPT ![f] = Append(@, cls)]
  /\ IF ShouldReport(cls)
     THEN /\ pc' = [pc EXCEPT ![f] = "telemetry"]
          /\ telemetry' = [telemetry EXCEPT ![f] = @ + 1]
          /\ UNCHANGED <<outcome, failReports, waits, reports>>
     ELSE IF ShouldRetry(cls, attempt[f])
     THEN /\ pc' = [pc EXCEPT ![f] = "backoff"]
          /\ waits' = [waits EXCEPT ![f] = Append(@, BackoffDelay(attempt[f]))]
          /\ UNCHANGED <<outcome, failReports, telemetry, reports>>
     ELSE /\ Fail(f, cls)
          /\ UNCHANGED <<telemetry, reports, waits>>

\* the call of llmClient.categorize
CallOracle(f) ==
  /\ pc' = [pc EXCEPT ![f] = "classifying"]
  /\ oracleCalls' = [oracleCalls EXCEPT ![f] = @ + 1]

\* getFileHash resolves; the cache is asked, or the oracle when there is none
HashDone(f) ==
  /\ pc[f] = "hashing"
  /\ hash' = [hash EXCEPT ![f] = getFileHash(content[f])]
  /\ IF hasCache
     THEN /\ pc' = [pc EXCEPT ![f] = "lookup"]
          /\ UNCHANGED oracleCalls
     ELSE CallOracle(f)
  /\ UNCHANGED <<files, maxRuns, optConcurrency, hasCache, hasTelemetry,
                 faultSites, content, run, phase, attempt, pending, cache, outcome,
                 returned, failReports, telemetry, reports, waits, cacheWrites, faults, prev>>
  /\ UNCHANGED <<orgVars, apiVars, jrVars, fnVars>>

\* getCachedCategorization resolves: a hit returns the cached file
LookupDone(f) ==
  /\ pc[f] = "lookup"
  /\ IF CacheGet(f, hash[f]) # "none"
     THEN /\ Succeed(f, [path |-> f, category |-> CacheGet(f, hash[f]),
                         hash |-> hash[f]])
          /\ UNCHANGED oracleCalls
     ELSE /\ CallOracle(f)
          /\ UNCHANGED outcome
  /\ UNCHANGED <<files, maxRuns, optConcurrency, hasCache, hasTelemetry,
                 faultSites, content, run, phase, attempt, hash, pending, cache,
                 returned, failReports, telemetry, reports, waits, cacheWrites, faults, prev>>
  /\ UNCHANGED <<orgVars, apiVars, jrVars, fnVars>>

\* llmClient.categorize resolves with a category
OracleDone(f, cat) ==
  /\ pc[f] = "classifying"
  /\ IF hasCache
     THEN /\ pc' = [pc EXCEPT ![f] = "storing"]
          /\ pending' = [pending EXCEPT ![f] = cat]
          /\ UNCHANGED outcome
     ELSE /\ Succeed(f, [path |-> f, category |-> cat, hash |-> hash[f]])
          /\ UNCHANGED pending
  /\ UNCHANGED <<files, maxRuns, optConcurrency, hasCache, hasTelemetry,
                 faultSites, content, run, phase, attempt, hash, cache, returned,
                 failReports, telemetry, reports, waits, oracleCalls, cacheWrites,
                 faults, prev>>
  /\ UNCHANGED <<orgVars, apiVars, jrVars, fnVars>>

\* setCachedCategorization resolves
StoreDone(f) ==
  /\ pc[f] = "storing"
  /\ LET file == [path |-> f, category |-> pending[f], hash |-> hash[f]]
     IN /\ cache' = CachePut(file)
        /\ Succeed(f, file)
  /\ cacheWrites' = [cacheWrites EXCEPT ![f] = @ + 1]
  /\ pending' = [pending EXCEPT ![f] = "none"]
  /\ UNCHANGED <<files, maxRuns, optConcurrency, hasCache, hasTelemetry,
                 faultSites, content, run, phase, attempt, hash, returned, failReports,
                 telemetry, reports, waits, oracleCalls, faults, prev>>
  /\ UNCHANGED <<orgVars, apiVars, jrVars, fnVars>>

\* an awaited call of the try block rejects; classifyError gives cls
Throw(f, cls) ==
  /\ pc[f] \in TrySites \cap faultSites
  /\ Catch(f, cls)
  /\ pending' = [pending EXCEPT ![f] = "none"]
  /\ UNCHANGED <<files, maxRuns, optConcurrency, hasCache, hasTelemetry,
                 faultSites, content, run, phase, attempt, hash, cache, returned,
                 oracleCalls, cacheWrites, prev>>
  /\ UNCHANGED <<orgVars, apiVars, jrVars, fnVars>>

\* reportUnknownError resolves: the report was saved, or saving it failed
\* and the error was caught and logged inside; the reason is not network,
\* so the item fails
TelemetryDone(f, written) ==
  /\ pc[f] = "telemetry"
  /\ reports' = [reports EXCEPT ![f] = IF written THEN @ + 1 ELSE @]
  /\ Fail(f, "unknown")
  /\ UNCHANGED <<files, maxRuns, optConcurrency, hasCache, hasTelemetry,
                 faultSites, content, run, phase, attempt, hash, pending, cache, returned,
                 telemetry, waits, oracleCalls, cacheWrites, faults,
                 prev>>
  /\ UNCHANGED <<orgVars, apiVars, jrVars, fnVars>>

\* the delay elapses; continue: the next iteration hashes again
BackoffDone(f) ==
  /\ pc[f] = "backoff"
  /\ attempt' = [attempt EXCEPT ![f] = @ + 1]
  /\ pc' = [pc EXCEPT ![f] = "hashing"]
  /\ UNCHANGED <<files, maxRuns, optConcurrency, hasCache, hasTelemetry,
                 faultSites, content, run, phase, hash, pending, cache, outcome, returned,
                 failReports, telemetry, reports, waits, oracleCalls, cacheWrites, faults, prev>>
  /\ UNCHANGED <<orgVars, apiVars, jrVars, fnVars>>

\* Promise.all resolves; the non-null results are returned
Return ==
  /\ phase = "running"
  /\ \A f \in files : pc[f] \in {"done", "failed"}
  /\ phase' = "returned"
  /\ returned' = FilterNonNull(outcome)
  /\ UNCHANGED <<files, maxRuns, optConcurrency, hasCache, hasTelemetry,
                 faultSites, content, run, pc, attempt, hash, pending, cache, outcome,
                 failReports, telemetry, reports, waits, oracleCalls, cacheWrites, faults, prev>>
  /\ UNCHANGED <<orgVars, apiVars, jrVars, fnVars>>

(* ---------------------------------------------------------------------- *)
(* The filesystem as FileOrganizer and HistoryService see it              *)
(* ---------------------------------------------------------------------- *)
\* A path is a sequence of names; a name is a stem followed by the counters
\* of its "(k)" suffixes: <<"a", 1>> is a(1). <<>> is the root.
Base == <<<<"base">>>>
DotDot == <<"..">>
Dot == <<".">>

Parent(p) == SubSeq(p, 1, Len(p) - 1)
Prefixes(p) == {SubSeq(p, 1, k) : k \in 0..Len(p)}
IsPrefix(b, p) == Len(b) <= Len(p) /\ SubSeq(p, 1, Len(b)) = b

\* path.normalize as path.join and path.resolve apply it to an absolute path
RECURSIVE Normalize(_, _)
Normalize(rest, acc) ==
  IF rest = <<>> THEN acc
  ELSE IF Head(rest) = DotDot
       THEN Normalize(Tail(rest), IF acc = <<>> THEN acc ELSE Parent(acc))
  ELSE IF Head(rest) = Dot THEN Normalize(Tail(rest), acc)
  ELSE Normalize(Tail(rest), Append(acc, Head(rest)))

\* path.join(baseDirectory, category[, subcategory])
JoinCategory(base, file) ==
  Normalize(base \o file.category \o file.subcategory, <<>>)

\* names of which the first is a proper prefix of the second, as strings
ProperNamePrefixes == {<<<<"base">>, <<"base2">>>>}
NameStartsWith(n, m) == n = m \/ <<m, n>> \in ProperNamePrefixes

\* String.prototype.startsWith on the two resolved paths
PathStartsWith(p, b) ==
  \/ IsPrefix(b, p)
  \/ /\ b # <<>>
     /\ Len(p) >= Len(b)
     /\ SubSeq(p, 1, Len(b) - 1) = Parent(b)
     /\ NameStartsWith(p[Len(b)], b[Len(b)])

\* fs.access resolves
FileExists(p) == p \in DOMAIN fsFiles \/ p \in fsDirs

\* fs.mkdir(p, {recursive: true}) resolves unless a file is in the way
MkdirOk(p) == \A q \in Prefixes(p) : q \notin DOMAIN fsFiles
MkdirP(p) == fsDirs \cup Prefixes(p)

\* fs.rename of a regular file: the source is there, the target's directory
\* is there and the target is no directory; an existing file is replaced
RenameOk(old, new) ==
  /\ old \in DOMAIN fsFiles
  /\ Parent(new) \in fsDirs
  /\ new \notin fsDirs
Rename(old, new) ==
  [p \in (DOMAIN fsFiles \ {old}) \cup {new} |->
     IF p = new THEN fsFiles[old] ELSE fsFiles[p]]

\* fs.rmdir resolves for an empty directory
RmdirOk(p) ==
  /\ p \in fsDirs
  /\ p # <<>>
  /\ \A q \in fsDirs \cup DOMAIN fsFiles : q = p \/ ~IsPrefix(p, q)

\* name(k).ext in the directory of filePath
Candidate(filePath, k) ==
  Append(Parent(filePath), Append(filePath[Len(filePath)], k))

(* ---------------------------------------------------------------------- *)
(* Inputs of organize                                                     *)
(* ---------------------------------------------------------------------- *)
\* files organize is given at most
MaxOrgFiles == 2
\* startSession calls
MaxSessions == 1
\* rollback calls
MaxRollbacks == 2
\* files somebody else removes
MaxEnvChanges == 1
\* the safety limit of findAvailableName
CONFLICT_LIMIT == 1000

SrcNames == {<<"a">>, <<"Docs">>}
SrcPaths == {Append(Base, n) : n \in SrcNames}
CategoryChoices == {<<<<"Docs">>>>, <<<<"Misc">>>>}
SubcategoryChoices == {<<>>, <<<<"x">>>>}
Items == [path : SrcPaths, category : CategoryChoices,
          subcategory : SubcategoryChoices]
Inputs ==
  {in \in UNION {[1..n -> Items] : n \in 1..MaxOrgFiles} :
     \A i, j \in 1..Len(in) : i # j => in[i].path # in[j].path}

\* the content a source file starts with
ContentOf(p) == p[Len(p)]

\* a file that is in the way in a category directory
Conflict == Base \o <<<<"Misc">>, <<"a">>>>

NoRb == [pc |-> "idle", sid |-> 0, ops |-> <<>>, idx |-> 0, reverted |-> 0,
         errors |-> <<>>, success |-> TRUE, err |-> "none", log |-> <<>>,
         after |-> FALSE, known |-> FALSE, clean |-> FALSE]

OrgInit(strategies, dryRuns) ==
  /\ \E pre \in SUBSET {Parent(Conflict), Conflict} :
        /\ (Conflict \in pre => Parent(Conflict) \in pre)
        /\ fsDirs = {<<>>, Base} \cup (pre \ {Conflict})
        /\ fsFiles = [p \in SrcPaths \cup (pre \cap {Conflict}) |-> ContentOf(p)]
  /\ sessions = <<>>
  /\ \E in \in Inputs, st \in strategies, dr \in dryRuns :
        org = [pc |-> "idle", input |-> in, base |-> Base, strategy |-> st,
               dryRun |-> dr, sid |-> 0, i |-> 0, catPath |-> <<>>,
               dest |-> <<>>, final |-> <<>>, k |-> 0, results |-> <<>>]
  /\ rb = [c \in 1..MaxRollbacks |-> NoRb]
  /\ envChanges = 0

(* ---------------------------------------------------------------------- *)
(* HistoryService: sessions and records                                   *)
(* ---------------------------------------------------------------------- *)
MoveRecord(src, dst) == [type |-> "move", src |-> src, dst |-> dst]
DirRecord(dir) == [type |-> "create_directory", src |-> dir, dst |-> <<>>]

KnownSession(sid) == sid \in 1..Len(sessions)

\* recordOperation: push, or a warning for an unknown session
recordOperation(sid, op) ==
  IF KnownSession(sid)
  THEN [sessions EXCEPT ![sid].operations = Append(@, op)]
  ELSE sessions

\* what FileOrganizer records: if (sessionId && this.historyService)
Recorded(sid, op) == IF sid # 0 THEN recordOperation(sid, op) ELSE sessions

\* startSession: a fresh id with no operations
StartSession ==
  /\ Len(sessions) < MaxSessions
  /\ sessions' = Append(sessions, [operations |-> <<>>, rolledBack |-> FALSE,
                                   ended |-> FALSE])
  /\ UNCHANGED <<fsFiles, fsDirs, org, rb, envChanges>>
  /\ UNCHANGED <<catVars, apiVars, jrVars, fnVars>>

(* ---------------------------------------------------------------------- *)
(* FileOrganizer.organize and ConflictResolver.resolve                    *)
(* ---------------------------------------------------------------------- *)
OutcomeNotSkipped(ok, src, dst, skipped, error) ==
  [success |-> ok, source |-> src, dest |-> dst, skipped |-> FALSE,
   error |-> error]

\* FileOperationResult
Outcome(ok, src, dst, skipped, error) ==
  [success |-> ok, source |-> src, dest |-> dst, skipped |-> skipped,
   error |-> error]

PushAndStop(res) ==
  org' = [org EXCEPT !.results = Append(@, res),
                     !.i = IF res.success THEN @ + 1 ELSE Len(org.input) + 1,
                     !.pc = "next"]

\* results.push(...) and the next iteration of the loop over the files
Push(res) ==
  org' = [org EXCEPT !.results = Append(@, res), !.i = @ + 1, !.pc = "next"]

CurrentFile == org.input[org.i]

\* the caller passes the files, the strategy and a session id
OrgStart(sid) ==
  /\ org.pc = "idle"
  /\ sid = 0 \/ KnownSession(sid)
  /\ org' = [org EXCEPT !.pc = "next", !.sid = sid, !.i = 1]
  /\ UNCHANGED <<fsFiles, fsDirs, sessions, rb, envChanges>>
  /\ UNCHANGED <<catVars, apiVars, jrVars, fnVars>>

\* the prefix check of organizeFile
EscapesBase(catPath, base) == ~PathStartsWith(catPath, Normalize(base, <<>>))

DryRunIgnored == FALSE

\* if (dryRun)
DryRun == org.dryRun

\* organizeFile up to its first await: the destination, the security
\* check, the dry run; organize returns after the last file
OrgNext ==
  /\ org.pc = "next"
  /\ IF org.i > Len(org.input)
     THEN org' = [org EXCEPT !.pc = "done"]
     ELSE LET catPath == JoinCategory(org.base, CurrentFile)
              fileName == CurrentFile.path[Len(CurrentFile.path)]
              dest == Append(catPath, fileName)
          IN IF EscapesBase(catPath, org.base)
             THEN Push(Outcome(FALSE, CurrentFile.path, <<>>, FALSE, "security"))
             ELSE IF DryRun
             THEN Push(Outcome(TRUE, CurrentFile.path, dest, FALSE, "none"))
             ELSE org' = [org EXCEPT !.pc = "mkdir", !.catPath = catPath,
                                     !.dest = dest, !.final = dest]
  /\ UNCHANGED <<fsFiles, fsDirs, sessions, rb, envChanges>>
  /\ UNCHANGED <<catVars, apiVars, jrVars, fnVars>>

\* fs.mkdir(categoryPath, {recursive: true}) takes effect or rejects
OrgMkdir ==
  /\ org.pc = "mkdir"
  /\ IF MkdirOk(org.catPath)
     THEN /\ fsDirs' = MkdirP(org.catPath)
          /\ org' = [org EXCEPT !.pc = "mkdirDone"]
     ELSE /\ Push(Outcome(FALSE, CurrentFile.path, <<>>, FALSE, "mkdir"))
          /\ UNCHANGED fsDirs
  /\ UNCHANGED <<fsFiles, sessions, rb, envChanges>>
  /\ UNCHANGED <<catVars, apiVars, jrVars, fnVars>>

\* the create_directory record; resolve asks whether the destination exists
OrgAfterMkdir ==
  /\ org.pc = "mkdirDone"
  /\ sessions' = Recorded(org.sid, DirRecord(org.catPath))
  /\ org' = [org EXCEPT !.pc = "probe", !.k = 0]
  /\ UNCHANGED <<fsFiles, fsDirs, rb, envChanges>>
  /\ UNCHANGED <<catVars, apiVars, jrVars, fnVars>>

NextProbeSkipping(c) ==
  IF c + 1 > CONFLICT_LIMIT
  THEN Push(Outcome(FALSE, CurrentFile.path, <<>>, FALSE, "too_many_conflicts"))
  ELSE org' = [org EXCEPT !.k = c + 1]

\* findAvailableName's loop body for counter = c: the name is built, the
\* counter incremented and tested, then the name is probed
NextProbe(c) ==
  IF c + 1 > CONFLICT_LIMIT
  THEN Push(Outcome(FALSE, CurrentFile.path, <<>>, FALSE, "too_many_conflicts"))
  ELSE org' = [org EXCEPT !.k = c]

\* fs.access answers; resolve and findAvailableName go on
OrgProbe ==
  /\ org.pc = "probe"
  /\ LET target == IF org.k = 0 THEN org.dest ELSE Candidate(org.dest, org.k)
     IN IF ~FileExists(target)
        THEN org' = [org EXCEPT !.pc = "rename", !.final = target]
        ELSE IF org.k > 0 THEN NextProbe(org.k + 1)
        ELSE IF org.strategy = "skip"
        THEN Push(Outcome(TRUE, CurrentFile.path, org.dest, TRUE, "none"))
        ELSE IF org.strategy = "overwrite"
        THEN org' = [org EXCEPT !.pc = "rename", !.final = org.dest]
        ELSE IF org.strategy = "rename"
        THEN NextProbe(1)
        ELSE Push(Outcome(FALSE, CurrentFile.path, <<>>, FALSE, "not_implemented"))
  /\ UNCHANGED <<fsFiles, fsDirs, sessions, rb, envChanges>>
  /\ UNCHANGED <<catVars, apiVars, jrVars, fnVars>>

\* fs.rename(file.path, destinationPath) takes effect or rejects
OrgRename ==
  /\ org.pc = "rename"
  /\ IF RenameOk(CurrentFile.path, org.final)
     THEN /\ fsFiles' = Rename(CurrentFile.path, org.final)
          /\ org' = [org EXCEPT !.pc = "renamed"]
     ELSE /\ Push(Outcome(FALSE, CurrentFile.path, <<>>, FALSE, "rename"))
          /\ UNCHANGED fsFiles
  /\ UNCHANGED <<fsDirs, sessions, rb, envChanges>>
  /\ UNCHANGED <<catVars, apiVars, jrVars, fnVars>>

\* the move record and the file's result
OrgAfterRename ==
  /\ org.pc = "renamed"
  /\ sessions' = Recorded(org.sid, MoveRecord(CurrentFile.path, org.final))
  /\ Push(Outcome(TRUE, CurrentFile.path, org.final, FALSE, "none"))
  /\ UNCHANGED <<fsFiles, fsDirs, rb, envChanges>>
  /\ UNCHANGED <<catVars, apiVars, jrVars, fnVars>>

\* endSession after organize returned
EndSession ==
  /\ org.pc = "done"
  /\ KnownSession(org.sid)
  /\ ~sessions[org.sid].ended
  /\ sessions' = [sessions EXCEPT ![org.sid].ended = TRUE]
  /\ UNCHANGED <<fsFiles, fsDirs, org, rb, envChanges>>
  /\ UNCHANGED <<catVars, apiVars, jrVars, fnVars>>

\* somebody else removes a file
EnvRemove(p) ==
  /\ envChanges < MaxEnvChanges
  /\ p \in DOMAIN fsFiles
  /\ fsFiles' = [q \in DOMAIN fsFiles \ {p} |-> fsFiles[q]]
  /\ envChanges' = envChanges + 1
  /\ UNCHANGED <<fsDirs, sessions, org, rb>>
  /\ UNCHANGED <<catVars, apiVars, jrVars, fnVars>>

\* the content of a file somebody else creates
NewContent(p) == <<"new">> \o p[Len(p)]

\* somebody else creates a file under the name a source file had
EnvCreate(p) ==
  /\ envChanges < MaxEnvChanges
  /\ p \notin DOMAIN fsFiles
  /\ p \notin fsDirs
  /\ Parent(p) \in fsDirs
  /\ fsFiles' = [q \in DOMAIN fsFiles \cup {p} |->
                  IF q = p THEN NewContent(p) ELSE fsFiles[q]]
  /\ envChanges' = envChanges + 1
  /\ UNCHANGED <<fsDirs, sessions, org, rb>>
  /\ UNCHANGED <<catVars, apiVars, jrVars, fnVars>>

(* ---------------------------------------------------------------------- *)
(* HistoryService.rollback                                                *)
(* ---------------------------------------------------------------------- *)
ForwardOrder(ops) == ops

\* [...session.operations].reverse()
ReverseOrder(ops) == [i \in 1..Len(ops) |-> ops[Len(ops) + 1 - i]]

NeverRolledBack(sid) == FALSE

\* if (session.rolledBack)
AlreadyRolledBack(sid) == sessions[sid].rolledBack

StopAtError(idx, ok, n) == IF ok THEN idx + 1 ELSE n + 1

\* the for loop goes on to the next operation, reverted or not
NextIndex(idx, ok, n) == idx + 1

\* session.rolledBack = true; return result
Finish(c, sid, call) ==
  /\ sessions' = [sessions EXCEPT ![sid].rolledBack = TRUE]
  /\ rb' = [rb EXCEPT ![c] = [call EXCEPT !.pc = "returned"]]

\* rollback up to its first await: the two checks, the reversed copy
RbStart(c, sid) ==
  /\ rb[c].pc = "idle"
  /\ \A d \in 1..MaxRollbacks : d < c => rb[d].pc # "idle"
  /\ LET call == [rb[c] EXCEPT
                    !.sid = sid,
                    !.known = KnownSession(sid),
                    !.after = \E d \in 1..MaxRollbacks :
                                 rb[d].pc = "returned" /\ rb[d].sid = sid,
                    !.clean = /\ org.pc = "done" /\ org.sid = sid
                              /\ envChanges = 0
                              /\ \A d \in 1..MaxRollbacks : rb[d].pc = "idle"]
     IN IF ~KnownSession(sid)
        THEN /\ rb' = [rb EXCEPT ![c] = [call EXCEPT !.pc = "threw",
                                                      !.err = "not_found"]]
             /\ UNCHANGED sessions
        ELSE IF AlreadyRolledBack(sid)
        THEN /\ rb' = [rb EXCEPT ![c] = [call EXCEPT !.pc = "threw",
                                          !.err = "already_rolled_back"]]
             /\ UNCHANGED sessions
        ELSE LET ops == ReverseOrder(sessions[sid].operations)
                 run1 == [call EXCEPT !.ops = ops, !.idx = 1]
             IN IF ops = <<>>
                THEN Finish(c, sid, run1)
                ELSE /\ rb' = [rb EXCEPT ![c] = [run1 EXCEPT !.pc = "running"]]
                     /\ UNCHANGED sessions
  /\ UNCHANGED <<fsFiles, fsDirs, org, envChanges>>
  /\ UNCHANGED <<catVars, apiVars, jrVars, fnVars>>

\* revertOperation of the current record takes effect or rejects, and the
\* loop goes on; after the last record the session is marked
RbStep(c) ==
  /\ rb[c].pc = "running"
  /\ LET call == rb[c]
         op == call.ops[call.idx]
         n == Len(call.ops)
         isMove == op.type = "move"
         ok == IF isMove THEN RenameOk(op.dst, op.src) ELSE TRUE
         entry == [op |-> op,
                   call |-> IF isMove THEN "rename" ELSE "rmdir",
                   from |-> IF isMove THEN op.dst ELSE op.src,
                   to |-> IF isMove THEN op.src ELSE <<>>]
         next == NextIndex(call.idx, ok, n)
         after == [call EXCEPT
                     !.idx = next,
                     !.log = Append(@, entry),
                     !.reverted = IF ok THEN @ + 1 ELSE @,
                     !.success = IF ok THEN @ ELSE FALSE,
                     !.errors = IF ok THEN @ ELSE Append(@, op)]
     IN /\ fsFiles' = IF isMove /\ ok THEN Rename(op.dst, op.src) ELSE fsFiles
        /\ fsDirs' = IF ~isMove /\ RmdirOk(op.src) THEN fsDirs \ {op.src}
                     ELSE fsDirs
        /\ IF next > n
           THEN Finish(c, call.sid, after)
           ELSE /\ rb' = [rb EXCEPT ![c] = after]
                /\ UNCHANGED sessions
  /\ UNCHANGED <<org, envChanges>>
  /\ UNCHANGED <<catVars, apiVars, jrVars, fnVars>>

OrgStep ==
  \/ StartSession
  \/ \E sid \in 0..MaxSessions : OrgStart(sid)
  \/ OrgNext
  \/ OrgMkdir
  \/ OrgAfterMkdir
  \/ OrgProbe
  \/ OrgRename
  \/ OrgAfterRename
  \/ EndSession
  \/ \E p \in DOMAIN fsFiles : EnvRemove(p)
  \/ \E c \in 1..MaxRollbacks, sid \in 1..MaxSessions + 1 : RbStart(c, sid)
  \/ \E c \in 1..MaxRollbacks : RbStep(c)

\* organize and rollback while other programs create and remove files
UndoStep ==
  \/ OrgStep
  \/ \E p \in SrcPaths : EnvCreate(p)

\* the category directory Misc is there before the session starts, empty
\* or holding a file
UndoInit ==
  /\ \E pre \in SUBSET {Conflict} :
        /\ fsDirs = {<<>>, Base, Parent(Conflict)}
        /\ fsFiles = [p \in SrcPaths \cup pre |-> ContentOf(p)]
  /\ sessions = <<>>
  /\ \E in \in Inputs :
        org = [pc |-> "idle", input |-> in, base |-> Base,
               strategy |-> "rename", dryRun |-> FALSE, sid |-> 0, i |-> 0,
               catPath |-> <<>>, dest |-> <<>>, final |-> <<>>, k |-> 0,
               results |-> <<>>]
  /\ rb = [c \in 1..MaxRollbacks |-> NoRb]
  /\ envChanges = 0

\* organize alone: a session is started, organize runs, the session ends
PlaceStep ==
  \/ StartSession
  \/ \E sid \in 0..MaxSessions : OrgStart(sid)
  \/ OrgNext
  \/ OrgMkdir
  \/ OrgAfterMkdir
  \/ OrgProbe
  \/ OrgRename
  \/ OrgAfterRename
  \/ EndSession

(* ---------------------------------------------------------------------- *)
(* Inputs of organize: every strategy, categories that leave the base     *)
(* ---------------------------------------------------------------------- *)
\* ConflictStrategy
Strategies == {"skip", "overwrite", "rename", "ask"}

\* category strings with '..' segments: "..", "../base2"
EscapeChoices == {<<DotDot>>, <<DotDot, <<"base2">>>>}

PlaceItems == [path : SrcPaths, category : CategoryChoices \cup EscapeChoices,
               subcategory : SubcategoryChoices]
PlaceInputs ==
  {in \in UNION {[1..n -> PlaceItems] : n \in 1..MaxOrgFiles} :
     \A i, j \in 1..Len(in) : i # j => in[i].path # in[j].path}

\* the content of a file that was in a category directory before the run
OldContent(p) == <<"old">> \o p[Len(p)]

\* what the base directory holds besides the source files: nothing, the
\* directory Misc, a file a in it, also a(1), or a directory named a
PreStates ==
  {[dirs |-> {}, files |-> {}],
   [dirs |-> {Parent(Conflict)}, files |-> {}],
   [dirs |-> {Parent(Conflict)}, files |-> {Conflict}],
   [dirs |-> {Parent(Conflict)}, files |-> {Conflict, Candidate(Conflict, 1)}],
   [dirs |-> {Parent(Conflict), Conflict}, files |-> {}]}

NewOrg(in, st, dr) ==
  [pc |-> "idle", input |-> in, base |-> Base, strategy |-> st,
   dryRun |-> dr, sid |-> 0, i |-> 0, catPath |-> <<>>,
   dest |-> <<>>, final |-> <<>>, k |-> 0, results |-> <<>>]

PlaceInit ==
  /\ \E pre \in PreStates :
        /\ fsDirs = {<<>>, Base} \cup pre.dirs
        /\ fsFiles = [p \in SrcPaths \cup pre.files |->
                        IF p \in SrcPaths THEN ContentOf(p) ELSE OldContent(p)]
  /\ sessions = <<>>
  /\ \E in \in PlaceInputs, st \in Strategies, dr \in BOOLEAN :
        org = NewOrg(in, st, dr)
  /\ rb = [c \in 1..MaxRollbacks |-> NoRb]
  /\ envChanges = 0

\* names name(1) .. name(TakenNames) are in use in the category directory
TakenNames == 999

\* one file whose destination and first candidates are in use
LimitInit ==
  /\ \E n \in {TakenNames - 1, TakenNames} :
        LET taken == {Conflict} \cup {Candidate(Conflict, k) : k \in 1..n}
        IN /\ fsDirs = {<<>>, Base, Parent(Conflict)}
           /\ fsFiles = [p \in SrcPaths \cup taken |->
                           IF p \in SrcPaths THEN ContentOf(p) ELSE OldContent(p)]
  /\ sessions = <<>>
  /\ org = NewOrg(<<[path |-> Append(Base, <<"a">>),
                     category |-> <<<<"Misc">>>>, subcategory |-> <<>>]>>,
                  "rename", FALSE)
  /\ rb = [c \in 1..MaxRollbacks |-> NoRb]
  /\ envChanges = 0

(* ---------------------------------------------------------------------- *)
(* ConflictResolver.resolve called by several callers at once             *)
(* ---------------------------------------------------------------------- *)
\* resolve requests in progress at the same time
NumResolves == 3

\* the file request r wants to place
ResSource(r) == Append(Base, <<"in", r>>)

ResInit ==
  /\ \E pre \in {{}, {Conflict}, {Conflict, Candidate(Conflict, 1)}} :
        fsFiles = [p \in {ResSource(r) : r \in 1..NumResolves} \cup pre |->
                     IF p \in pre THEN OldContent(p) ELSE ContentOf(p)]
  /\ fsDirs = {<<>>, Base, Parent(Conflict)}
  /\ sessions = <<>>
  /\ org = [NewOrg(<<>>, "rename", FALSE) EXCEPT !.pc = "off"]
  /\ rb = <<>>
  /\ envChanges = MaxEnvChanges
  /\ rs = [r \in 1..NumResolves |->
             [pc |-> "idle", src |-> ResSource(r), dest |-> Conflict,
              k |-> 0, final |-> <<>>]]

\* resolve(sourcePath, destinationPath, RENAME) up to its first fs.access
ResCall(r) ==
  /\ rs[r].pc = "idle"
  /\ rs' = [rs EXCEPT ![r].pc = "probe", ![r].k = 0]
  /\ UNCHANGED <<catVars, orgVars, dbCalls, jrVars, fnVars>>

\* fs.access answers: resolve returns the name, or findAvailableName
\* builds the next one, increments its counter and tests the limit
ResProbe(r) ==
  /\ rs[r].pc = "probe"
  /\ LET target == IF rs[r].k = 0 THEN rs[r].dest
                   ELSE Candidate(rs[r].dest, rs[r].k)
     IN IF ~FileExists(target)
        THEN rs' = [rs EXCEPT ![r].pc = "returned", ![r].final = target]
        ELSE IF rs[r].k + 2 > CONFLICT_LIMIT
        THEN rs' = [rs EXCEPT ![r].pc = "threw"]
        ELSE rs' = [rs EXCEPT ![r].k = @ + 1]
  /\ UNCHANGED <<catVars, orgVars, dbCalls, jrVars, fnVars>>

\* the caller moves its file to the path resolve returned
ResRename(r) ==
  /\ rs[r].pc = "returned"
  /\ IF RenameOk(rs[r].src, rs[r].final)
     THEN /\ fsFiles' = Rename(rs[r].src, rs[r].final)
          /\ rs' = [rs EXCEPT ![r].pc = "placed"]
     ELSE /\ rs' = [rs EXCEPT ![r].pc = "failed"]
          /\ UNCHANGED fsFiles
  /\ UNCHANGED <<catVars, fsDirs, sessions, org, rb, envChanges, dbCalls,
               jrVars, fnVars>>

ResStep ==
  \/ \E r \in 1..NumResolves : ResCall(r)
  \/ \E r \in 1..NumResolves : ResProbe(r)
  \/ \E r \in 1..NumResolves : ResRename(r)

(* ---------------------------------------------------------------------- *)
(* SQLiteDatabaseService called directly                                  *)
(* ---------------------------------------------------------------------- *)
\* calls made on the cache
MaxDbCalls == 3

DbPaths == {1, 2}
\* the hash argument: empty or absent, or a digest
DbHashes == {NoHash} \cup {getFileHash(c) : c \in 1..NumContents}

catVarsButCache ==
  <<files, maxRuns, optConcurrency, hasCache, hasTelemetry, faultSites,
    content, run, phase, pc, attempt, hash, pending, outcome, returned,
    failReports, telemetry, reports, waits, oracleCalls, cacheWrites, faults, prev>>

\* getCachedCategorization(p, h) returns
DbGet(p, h) ==
  /\ Len(dbCalls) < MaxDbCalls
  /\ dbCalls' = Append(dbCalls,
                       [op |-> "get", path |-> p, hash |-> h,
                        category |-> "none", result |-> CacheGet(p, h),
                        before |-> cache, after |-> cache])
  /\ UNCHANGED <<catVars, orgVars, rs, jrVars, fnVars>>

\* setCachedCategorization({path: p, hash: h, category: cat}) returns
DbSet(p, h, cat) ==
  /\ Len(dbCalls) < MaxDbCalls
  /\ cache' = CachePut([path |-> p, category |-> cat, hash |-> h])
  /\ dbCalls' = Append(dbCalls,
                       [op |-> "set", path |-> p, hash |-> h,
                        category |-> cat, result |-> "ok",
                        before |-> cache, after |-> cache'])
  /\ UNCHANGED <<catVarsButCache, orgVars, rs, jrVars, fnVars>>

DbStep ==
  \/ \E p \in DbPaths, h \in DbHashes : DbGet(p, h)
  \/ \E p \in DbPaths, h \in DbHashes, cat \in Categories : DbSet(p, h, cat)

(* ---------------------------------------------------------------------- *)
(* HistoryService instances sharing one history.json                      *)
(* ---------------------------------------------------------------------- *)
\* HistoryService instances alive at the same time
NumJournals == 2
\* session ids startSession can hand out
MaxSessionIds == 2
\* operations recorded in one session
MaxRecords == 1
\* runs of the reversal loop of one session that are followed
MaxReversals == 2

Journals == 1..NumJournals

\* 0 is a session written by a program of another document version
SessionIds == 0..MaxSessionIds

NoSession == [absent |-> TRUE]

\* new Map()
EmptyMap == [id \in SessionIds |-> NoSession]

\* fs.readFile fails with ENOENT
NoDoc == [version |-> "none"]

\* a Date, by its milliseconds
Date(t) == [ms |-> t]

\* endTime of a session that was not ended: undefined
NoTime == [undefined |-> TRUE]

\* JSON.stringify of a Date, Date.prototype.toISOString
toISOString(d) == [iso |-> d.ms]

\* new Date(string) on a string toISOString wrote
FromISOString(str) == [ms |-> str.iso]

\* the entry startSession puts into the map
NewSession ==
  [operations |-> <<>>, rolledBack |-> FALSE, startTime |-> Date(0),
   endTime |-> NoTime]

\* a recorded operation
Operation(type, t) == [type |-> type, timestamp |-> Date(t)]

\* JSON.stringify of one session: Dates become strings, an undefined
\* endTime is left out
StringifySession(x) ==
  IF x = NoSession THEN NoSession
  ELSE [operations |->
          [i \in DOMAIN x.operations |->
             [type |-> x.operations[i].type,
              timestamp |-> toISOString(x.operations[i].timestamp)]],
        rolledBack |-> x.rolledBack,
        startTime |-> toISOString(x.startTime),
        endTime |-> IF x.endTime = NoTime THEN NoTime
                    ELSE toISOString(x.endTime)]

\* sessions: Array.from(this.sessions.values()), stringified
Stringify(m) == [id \in DOMAIN m |-> StringifySession(m[id])]

\* a load() that leaves the timestamps of the operations as strings
ReviveSessionTimesOnly(x) ==
  IF x = NoSession THEN NoSession
  ELSE [x EXCEPT !.startTime = FromISOString(@),
                 !.endTime = IF @ = NoTime THEN NoTime ELSE FromISOString(@)]

\* the loop body of load(): the date strings of a parsed session become
\* Dates again
ReviveSession(x) ==
  IF x = NoSession THEN NoSession
  ELSE [operations |->
          [i \in DOMAIN x.operations |->
             [type |-> x.operations[i].type,
              timestamp |-> FromISOString(x.operations[i].timestamp)]],
        rolledBack |-> x.rolledBack,
        startTime |-> FromISOString(x.startTime),
        endTime |-> IF x.endTime = NoTime THEN NoTime
                    ELSE FromISOString(x.endTime)]

\* this.sessions after load() has set every session of the document
Revive(doc) == [id \in DOMAIN doc |-> ReviveSession(doc[id])]

\* a document left by a program that writes version 2.0
ForeignDoc ==
  [version |-> "2.0",
   sessions |-> Stringify([EmptyMap EXCEPT ![0] =
                  [NewSession EXCEPT !.operations = <<Operation("move", 0)>>]])]

DiskChoices ==
  {NoDoc, [version |-> "1.0", sessions |-> Stringify(EmptyMap)], ForeignDoc}

NoCall == [op |-> "none", j |-> 0, doc |-> NoDoc, before |-> EmptyMap]

\* no HistoryService instance is in use
JrQuiet ==
  /\ disk = NoDoc
  /\ mem = [j \in Journals |-> EmptyMap]
  /\ nextId = 1
  /\ reversals = [id \in SessionIds |-> 0]
  /\ saved = {}
  /\ jlast = NoCall
  /\ loaded = {}
  /\ blind = FALSE

JrInit ==
  /\ disk \in DiskChoices
  /\ mem = [j \in Journals |-> EmptyMap]
  /\ nextId = 1
  /\ reversals = [id \in SessionIds |-> 0]
  /\ saved = {}
  /\ jlast = NoCall
  /\ loaded = {}
  /\ blind = FALSE

JrQuietRest == UNCHANGED <<catVars, orgVars, apiVars, fnVars>>

\* this.sessions.get(id) finds an entry
Has(m, id) == m[id] # NoSession

\* load() accepts every version
AnyVersion(doc) == TRUE

\* data.version !== '1.0' makes load() return
VersionSupported(doc) == doc.version = "1.0"

\* new HistoryService(dir): a process starts, or a handler builds its own
JNew(j) ==
  /\ mem[j] # EmptyMap \/ j \in loaded
  /\ mem' = [mem EXCEPT ![j] = EmptyMap]
  /\ jlast' = [NoCall EXCEPT !.op = "new", !.j = j]
  /\ loaded' = loaded \ {j}
  /\ UNCHANGED <<disk, nextId, reversals, saved, blind>>
  /\ JrQuietRest

\* startSession(): a fresh id, an entry with no operations
JStart(j) ==
  /\ nextId <= MaxSessionIds
  /\ mem' = [mem EXCEPT ![j][nextId] = NewSession]
  /\ nextId' = nextId + 1
  /\ jlast' = [NoCall EXCEPT !.op = "start", !.j = j]
  /\ UNCHANGED <<disk, reversals, saved, loaded, blind>>
  /\ JrQuietRest

\* recordOperation(id, op) on a session the instance holds
JRecord(j, id) ==
  /\ Has(mem[j], id)
  /\ Len(mem[j][id].operations) < MaxRecords
  /\ mem' = [mem EXCEPT ![j][id].operations = Append(@, Operation("move", 0))]
  /\ jlast' = [NoCall EXCEPT !.op = "record", !.j = j]
  /\ UNCHANGED <<disk, nextId, reversals, saved, loaded, blind>>
  /\ JrQuietRest

\* rollback(id), the whole call: unknown session, session already rolled
\* back, or the reversal loop followed by rolledBack = true
JRollback(j, id) ==
  /\ reversals[id] < MaxReversals
  /\ IF ~Has(mem[j], id)
     THEN /\ jlast' = [NoCall EXCEPT !.op = "rollback", !.j = j]
          /\ UNCHANGED <<mem, reversals>>
     ELSE IF mem[j][id].rolledBack
     THEN /\ jlast' = [NoCall EXCEPT !.op = "rollback", !.j = j]
          /\ UNCHANGED <<mem, reversals>>
     ELSE /\ reversals' = [reversals EXCEPT ![id] = @ + 1]
          /\ mem' = [mem EXCEPT ![j][id].rolledBack = TRUE]
          /\ jlast' = [NoCall EXCEPT !.op = "rollback", !.j = j]
  /\ UNCHANGED <<disk, nextId, saved, loaded, blind>>
  /\ JrQuietRest

\* save(): the document becomes version 1.0 with the instance's whole map
JSave(j) ==
  /\ disk' = [version |-> "1.0", sessions |-> Stringify(mem[j])]
  /\ saved' = saved \cup {id \in SessionIds : Has(mem[j], id)}
  /\ jlast' = [NoCall EXCEPT !.op = "save", !.j = j]
  /\ blind' = (blind \/ j \notin loaded)
  /\ UNCHANGED <<mem, nextId, reversals, loaded>>
  /\ JrQuietRest

\* load(): no document, a document of another version, or the map is
\* cleared and filled from the document
JLoad(j) ==
  /\ jlast' = [NoCall EXCEPT !.op = "load", !.j = j, !.doc = disk,
                             !.before = mem[j]]
  /\ IF disk = NoDoc
     THEN UNCHANGED mem
     ELSE IF ~VersionSupported(disk)
     THEN UNCHANGED mem
     ELSE mem' = [mem EXCEPT ![j] = Revive(disk.sessions)]
  /\ loaded' = loaded \cup {j}
  /\ UNCHANGED <<disk, nextId, reversals, saved, blind>>
  /\ JrQuietRest

JrStep ==
  \/ \E j \in Journals : JNew(j)
  \/ \E j \in Journals : JStart(j)
  \/ \E j \in Journals, id \in SessionIds : JRecord(j, id)
  \/ \E j \in Journals, id \in SessionIds : JRollback(j, id)
  \/ \E j \in Journals : JSave(j)
  \/ \E j \in Journals : JLoad(j)

(* ---------------------------------------------------------------------- *)
(* PathValidator.sanitizeAndValidate                                      *)
(* ---------------------------------------------------------------------- *)
NoPv == [pc |-> "off"]

\* sanitizeAndValidate is not being called
PvQuiet == pv = NoPv

\* characters of an input
MaxPathLen == 4

\* the null byte
NUL == "NUL"

\* a dot, the two separators, a letter, the null byte, a shell character
PvChars == {".", "/", "\\", "a", NUL, ";"}

PvInputs == UNION {[1..n -> PvChars] : n \in 0..MaxPathLen}

\* the input is passed on with its null bytes
KeepNulls(s) == s

\* userInput.replace(/\0/g, '')
StripNulls(s) == SelectSeq(s, LAMBDA c : c # NUL)

\* s.includes(t)
Includes(s, t) ==
  \E i \in 1..(Len(s) - Len(t) + 1) : SubSeq(s, i, i + Len(t) - 1) = t

\* s.startsWith(t)
StartsWith(s, t) == Len(s) >= Len(t) /\ SubSeq(s, 1, Len(t)) = t

\* s.endsWith(t)
EndsWith(s, t) ==
  Len(s) >= Len(t) /\ SubSeq(s, Len(s) - Len(t) + 1, Len(s)) = t

\* step 3 of sanitizeAndValidate
Traversal(cleaned) ==
  \/ Includes(cleaned, <<"/", ".", ".", "/">>)
  \/ Includes(cleaned, <<"\\", ".", ".", "\\">>)
  \/ StartsWith(cleaned, <<".", ".", "/">>)
  \/ StartsWith(cleaned, <<".", ".", "\\">>)
  \/ cleaned = <<".", ".">>
  \/ EndsWith(cleaned, <<"/", ".", ".">>)
  \/ EndsWith(cleaned, <<"\\", ".", ".">>)

\* step 4: /[\$\`\|;&]/.test(cleaned)
Dangerous(cleaned) == \E i \in 1..Len(cleaned) : cleaned[i] = ";"

\* the separators path.resolve splits at on the platform
Seps(win) == IF win THEN {"/", "\\"} ELSE {"/"}

\* the root of an absolute path: '/' or the current drive
Root(win) == IF win THEN <<<<"C:">>>> ELSE <<>>

\* process.cwd(), as components
Cwd(win) == Root(win) \o <<<<"w">>>>

RECURSIVE SplitFrom(_, _, _, _, _)
SplitFrom(s, seps, i, cur, acc) ==
  IF i > Len(s) THEN Append(acc, cur)
  ELSE IF s[i] \in seps
  THEN SplitFrom(s, seps, i + 1, <<>>, Append(acc, cur))
  ELSE SplitFrom(s, seps, i + 1, Append(cur, s[i]), acc)

\* the segments of s between separators
Split(s, seps) == SplitFrom(s, seps, 1, <<>>, <<>>)

RECURSIVE Walk(_, _, _, _)
\* path.resolve's normalisation: empty and '.' segments are dropped, '..'
\* drops the last component unless the path is at its root
Walk(segs, i, acc, floor) ==
  IF i > Len(segs) THEN acc
  ELSE IF segs[i] = <<>> \/ segs[i] = <<".">>
  THEN Walk(segs, i + 1, acc, floor)
  ELSE IF segs[i] = <<".", ".">>
  THEN Walk(segs, i + 1,
            IF Len(acc) > floor THEN SubSeq(acc, 1, Len(acc) - 1) ELSE acc,
            floor)
  ELSE Walk(segs, i + 1, Append(acc, segs[i]), floor)

\* path.resolve(cleaned), as the components of the absolute path
Resolve(cleaned, win) ==
  Walk(Split(cleaned, Seps(win)), 1,
       IF cleaned # <<>> /\ cleaned[1] \in Seps(win) THEN Root(win)
       ELSE Cwd(win),
       Len(Root(win)))

\* validateFilename passes: no separator in the name and, on Windows, no
\* trailing period
validateFilename(c, win) ==
  /\ ~(win /\ c[Len(c)] = ".")
  /\ \A i \in 1..Len(c) : c[i] \notin {"/", "\\"}

\* validateOsSpecific passes: the base name and every component but the
\* drive are valid
validateOsSpecific(resolved, win) ==
  \A k \in (Len(Root(win)) + 1)..Len(resolved) :
     validateFilename(resolved[k], win)

\* sanitizeAndValidate(userInput): the path returned or the error thrown
sanitizeAndValidate(userInput, win) ==
  LET cleaned == StripNulls(userInput)
      resolvedPath == Resolve(cleaned, win)
  IN IF Traversal(cleaned)
     THEN [ok |-> FALSE, error |-> "Path traversal", path |-> <<>>]
     ELSE IF Dangerous(cleaned)
     THEN [ok |-> FALSE, error |-> "dangerous shell characters", path |-> <<>>]
     ELSE IF ~validateOsSpecific(resolvedPath, win)
     THEN [ok |-> FALSE, error |-> "filename", path |-> <<>>]
     ELSE [ok |-> TRUE, error |-> "none", path |-> resolvedPath]

NoResult == [ok |-> FALSE, error |-> "pending", path |-> <<>>]

\* new PathValidator() on either platform, about to validate an input
PvInit ==
  \E in \in PvInputs, win \in BOOLEAN :
     pv = [pc |-> "called", input |-> in, isWindows |-> win,
           result |-> NoResult]

\* sanitizeAndValidate returns or throws
PvCall ==
  /\ pv.pc = "called"
  /\ pv' = [pv EXCEPT !.pc = "returned",
                      !.result = sanitizeAndValidate(pv.input, pv.isWindows)]
  /\ UNCHANGED <<catVars, orgVars, apiVars, jrVars, ce, sc, fh>>

(* ---------------------------------------------------------------------- *)
(* classifyError                                                          *)
(* ---------------------------------------------------------------------- *)
NoCe == [pc |-> "off"]

\* no failure is being classified
CeQuiet == ce = NoCe

\* pieces of text in one error message
MaxWords == 2

\* the texts classifyError looks for, group by group
DbWords == {"no such column", "sqlite", "database"}
NetWords == {"network", "timeout", "fetch failed", "econnrefused",
             "enotfound", "etimedout"}
LimitWords == {"rate limit", "quota", "429"}
AuthWords == {"unauthorized", "invalid api key", "403", "401"}
ServerWords == {"api error", "500", "502", "503"}

\* the pieces a message is made of: the texts above, Node's upper-case
\* error code, and a text that matches nothing
Words ==
  DbWords \cup NetWords \cup LimitWords \cup AuthWords \cup ServerWords
    \cup {"ETIMEDOUT", "invalid argument"}

Messages == UNION {[1..n -> Words] : n \in 0..MaxWords}

\* file names: two plain ones, one that contains the text 'timeout' and one
\* that contains the text 'database'
PathTexts == {<<"a">>, <<"b">>, <<"timeout">>, <<"database">>}

\* String.prototype.toLowerCase on a piece of text
ToLower(w) == IF w = "ETIMEDOUT" THEN "etimedout" ELSE w

\* error.message.toLowerCase()
LowerCase(message) == [i \in DOMAIN message |-> ToLower(message[i])]

\* message.includes(w) for some w of the group
Mentions(message, words) == \E i \in DOMAIN message : message[i] \in words

\* a classifier that looks for network text before database text
classifyNetworkFirst(isError, text) ==
  LET message == LowerCase(text)
  IN IF ~isError THEN "unknown"
     ELSE IF Mentions(message, NetWords) THEN "network"
     ELSE IF Mentions(message, DbWords) THEN "unknown"
     ELSE IF Mentions(message, LimitWords) THEN "api_limit"
     ELSE IF Mentions(message, AuthWords) THEN "auth"
     ELSE IF Mentions(message, ServerWords) THEN "api_error"
     ELSE "unknown"

\* classifyError(error, filePath).reason
classifyError(isError, text) ==
  LET message == LowerCase(text)
  IN IF ~isError THEN "unknown"
     ELSE IF Mentions(message, DbWords) THEN "unknown"
     ELSE IF Mentions(message, NetWords) THEN "network"
     ELSE IF Mentions(message, LimitWords) THEN "api_limit"
     ELSE IF Mentions(message, AuthWords) THEN "auth"
     ELSE IF Mentions(message, ServerWords) THEN "api_error"
     ELSE "unknown"

\* what reaches the catch block of the retry loop: getFileHash and the
\* cache reject with their own error; GeminiClient.categorize rethrows an
\* Error as 'Failed to categorize <filePath>: <message>' and anything else
\* as it is
Thrown(site, filePath, isError, message) ==
  IF site = "classifying" /\ isError
  THEN [isError |-> TRUE,
        message |-> <<"failed to categorize">> \o filePath \o message]
  ELSE [isError |-> isError, message |-> message]

\* one failure, raised at one awaited call, for each of two files
CeInit ==
  \E site \in TrySites, isError \in BOOLEAN, message \in Messages,
     p \in PathTexts, q \in PathTexts :
       /\ p # q
       /\ ce = [pc |-> "raised", site |-> site, isError |-> isError,
                message |-> message, paths |-> <<p, q>>,
                thrown |-> <<>>, classes |-> <<>>]

\* the awaited call rejects into the catch block
CeThrow ==
  /\ ce.pc = "raised"
  /\ ce' = [ce EXCEPT
              !.pc = "caught",
              !.thrown = [k \in 1..2 |->
                            Thrown(ce.site, ce.paths[k], ce.isError,
                                   ce.message)]]
  /\ UNCHANGED <<catVars, orgVars, apiVars, jrVars, pv, sc, fh>>

\* classifyError returns
CeClassify ==
  /\ ce.pc = "caught"
  /\ ce' = [ce EXCEPT
              !.pc = "classified",
              !.classes = [k \in 1..2 |->
                             classifyError(ce.thrown[k].isError,
                                           ce.thrown[k].message)]]
  /\ UNCHANGED <<catVars, orgVars, apiVars, jrVars, pv, sc, fh>>

CeStep == CeThrow \/ CeClassify

(* ---------------------------------------------------------------------- *)
(* FileScanner.scan                                                       *)
(* ---------------------------------------------------------------------- *)
NoSc == [pc |-> "off"]

\* scan is not being called
ScQuiet == sc = NoSc

\* LIMITS.MAX_FILES
MAX_FILES == 10000

\* files a directory holds beyond the limit
ExtraFiles == 1

\* a directory entry: whether its name starts with a dot, whether its name
\* passes REGEX.SAFE_FILENAME, whether it is a directory
Dirent(hidden, safe, directory) ==
  [hidden |-> hidden, safe |-> safe, directory |-> directory]

\* an entry scan returns
Eligible(e) == ~e.hidden /\ e.safe /\ ~e.directory

\* entries scan skips, one of every kind
Skipped ==
  <<Dirent(TRUE, TRUE, FALSE), Dirent(FALSE, FALSE, FALSE),
    Dirent(FALSE, TRUE, TRUE), Dirent(TRUE, FALSE, TRUE),
    Dirent(TRUE, TRUE, TRUE)>>

\* what readdir returns: some skipped entries followed by plain files
FileCounts == {0, 1} \cup (MAX_FILES - 1 .. MAX_FILES + ExtraFiles)
Directories ==
  [skipped : {<<>>, Skipped}, files : FileCounts, readable : BOOLEAN]

\* entries.length
Size(dir) == Len(dir.skipped) + dir.files

\* entries[i - 1]
Entry(dir, i) ==
  IF i <= Len(dir.skipped) THEN dir.skipped[i] ELSE Dirent(FALSE, TRUE, FALSE)

\* the number of entries of the directory that are eligible
EligibleCount(dir) ==
  Cardinality({i \in 1..Len(dir.skipped) : Eligible(dir.skipped[i])})
    + dir.files

\* files.length >= LIMITS.MAX_FILES
LimitReached(length) == length >= MAX_FILES

\* scan(rootDir) has been called
ScInit ==
  \E dir \in Directories :
    sc = [pc |-> "called", dir |-> dir, i |-> 1, length |-> 0]

ScQuietRest == UNCHANGED <<catVars, orgVars, apiVars, jrVars, pv, ce, fh>>

\* fs.readdir: the entries or an error
ScReaddir ==
  /\ sc.pc = "called"
  /\ sc' = [sc EXCEPT !.pc = IF sc.dir.readable THEN "loop" ELSE "unreadable"]
  /\ ScQuietRest

\* one turn of the loop over the entries; length is files.length
ScEntry ==
  /\ sc.pc = "loop"
  /\ sc.i <= Size(sc.dir)
  /\ LET e == Entry(sc.dir, sc.i) IN
       IF e.hidden \/ ~e.safe \/ e.directory
       THEN sc' = [sc EXCEPT !.i = @ + 1]
       ELSE IF LimitReached(sc.length + 1)
       THEN sc' = [sc EXCEPT !.length = @ + 1, !.pc = "tooMany"]
       ELSE sc' = [sc EXCEPT !.length = @ + 1, !.i = @ + 1]
  /\ ScQuietRest

\* the loop is over: scan returns files
ScReturn ==
  /\ sc.pc = "loop"
  /\ sc.i > Size(sc.dir)
  /\ sc' = [sc EXCEPT !.pc = "returned"]
  /\ ScQuietRest

ScStep == ScReaddir \/ ScEntry \/ ScReturn

(* ---------------------------------------------------------------------- *)
(* getFileHash                                                            *)
(* ---------------------------------------------------------------------- *)
NoFh == [pc |-> "off"]

\* getFileHash is not being called
FhQuiet == fh = NoFh

\* HASH_CONFIG, in bytes: 100 * 1024 * 1024 and 10 * 1024 * 1024
MAX_FULL_HASH_SIZE == 104857600
LARGE_FILE_CHUNK_SIZE == 10485760

\* distinct byte strings and modification times a file can have
NumBlocks == 2
NumMtimes == 2

\* bytes a file has beyond MAX_FULL_HASH_SIZE
ExtraBytes == 1

\* the empty byte string
NoBytes == 0

FileSizes ==
  {1, LARGE_FILE_CHUNK_SIZE}
    \cup (MAX_FULL_HASH_SIZE - 1 .. MAX_FULL_HASH_SIZE + ExtraBytes)

\* what fs.stat and the read stream see of a file: its size, its mtimeMs,
\* its first LARGE_FILE_CHUNK_SIZE bytes (head) and the bytes after them
\* (tail, empty when the file is no longer than the chunk)
StatFiles ==
  {f \in [size : FileSizes, mtimeMs : 1..NumMtimes, head : 1..NumBlocks,
          tail : {NoBytes} \cup 1..NumBlocks] :
     f.tail = NoBytes <=> f.size <= LARGE_FILE_CHUNK_SIZE}

\* the test takes the boundary for a large file
IsLargeFromBoundary(fileSize) == fileSize >= MAX_FULL_HASH_SIZE

\* fileSize > HASH_CONFIG.MAX_FULL_HASH_SIZE
IsLarge(fileSize) == fileSize > MAX_FULL_HASH_SIZE

\* hashLargeFile: the first chunk, then size and mtime
hashLargeFile(f) ==
  getFileHash(<<f.head, <<"size:", f.size>>, <<"mtime:", f.mtimeMs>>>>)

\* hashFullFile: the whole stream
hashFullFile(f) == getFileHash(<<f.head, f.tail>>)

\* getFileHash(filePath) for the file the path names
FileHash(f) == IF IsLarge(f.size) THEN hashLargeFile(f) ELSE hashFullFile(f)

\* the one path the files are put at
FhPath == 1

\* times the file at the path is replaced
MaxReplacements == 1

\* nothing was categorized before
NoBefore == [none |-> TRUE]

\* a file is at the path and categorizeFile is about to hash it
FhInit ==
  \E f \in StatFiles :
    fh = [pc |-> "hash", file |-> f, hash |-> NoHash, category |-> "none",
          fromCache |-> FALSE, before |-> NoBefore, replaced |-> 0]

FhQuietRest ==
  UNCHANGED <<catVarsButCache, orgVars, apiVars, jrVars, pv, ce, sc>>

\* const hash = await getFileHash(filePath)
FhHash ==
  /\ fh.pc = "hash"
  /\ fh' = [fh EXCEPT !.pc = "lookup", !.hash = FileHash(fh.file)]
  /\ UNCHANGED cache
  /\ FhQuietRest

\* getCachedCategorization: a row is returned as the result, or the oracle
\* is asked
FhLookup ==
  /\ fh.pc = "lookup"
  /\ LET c == CacheGet(FhPath, fh.hash) IN
       IF c # "none"
       THEN fh' = [fh EXCEPT !.pc = "done", !.category = c,
                             !.fromCache = TRUE]
       ELSE fh' = [fh EXCEPT !.pc = "oracle"]
  /\ UNCHANGED cache
  /\ FhQuietRest

\* the oracle answers and the answer is stored under (path, hash)
FhOracle ==
  /\ fh.pc = "oracle"
  /\ \E c \in Categories :
       /\ cache' = CachePut([path |-> FhPath, hash |-> fh.hash,
                             category |-> c])
       /\ fh' = [fh EXCEPT !.pc = "done", !.category = c,
                           !.fromCache = FALSE]
  /\ FhQuietRest

\* another file is put at the path and categorized in a later run
FhReplace ==
  /\ fh.pc = "done"
  /\ fh.replaced < MaxReplacements
  /\ \E f \in StatFiles :
       fh' = [pc |-> "hash", file |-> f, hash |-> NoHash,
              category |-> "none", fromCache |-> FALSE,
              before |-> [file |-> fh.file, hash |-> fh.hash,
                          category |-> fh.category],
              replaced |-> fh.replaced + 1]
  /\ UNCHANGED cache
  /\ FhQuietRest

FhStep == FhHash \/ FhLookup \/ FhOracle \/ FhReplace

\* none of the functions above is being called
FnQuiet == PvQuiet /\ CeQuiet /\ ScQuiet /\ FhQuiet

(* ---------------------------------------------------------------------- *)
(* Specifications                                                         *)
(* ---------------------------------------------------------------------- *)
\* nothing is being classified
CatQuiet ==
  /\ CatInit(0, 0, {})
  /\ optConcurrency = 0 /\ ~hasCache /\ ~hasTelemetry

\* nothing is being organized
OrgQuiet ==
  /\ fsFiles = <<>> /\ fsDirs = {<<>>}
  /\ sessions = <<>>
  /\ org = [pc |-> "off", input |-> <<>>, base |-> Base, strategy |-> "rename",
            dryRun |-> FALSE, sid |-> 0, i |-> 0, catPath |-> <<>>,
            dest |-> <<>>, final |-> <<>>, k |-> 0, results |-> <<>>]
  /\ rb = <<>>
  /\ envChanges = MaxEnvChanges

CatNext ==
  \/ CategorizeDirectory
  \/ \E f \in files : Admit(f)
  \/ \E f \in files : HashDone(f)
  \/ \E f \in files : LookupDone(f)
  \/ \E f \in files, cat \in Categories : OracleDone(f, cat)
  \/ \E f \in files : StoreDone(f)
  \/ \E f \in files, cls \in ErrClasses : Throw(f, cls)
  \/ \E f \in files, written \in BOOLEAN : TelemetryDone(f, written)
  \/ \E f \in files : BackoffDone(f)
  \/ Return

\* the scheduler with an oracle that may answer any string
CatNextAny ==
  \/ CategorizeDirectory
  \/ \E f \in files : Admit(f)
  \/ \E f \in files : HashDone(f)
  \/ \E f \in files : LookupDone(f)
  \/ \E f \in files, cat \in OracleResponses : OracleDone(f, cat)
  \/ \E f \in files : StoreDone(f)
  \/ \E f \in files, cls \in ErrClasses : Throw(f, cls)
  \/ \E f \in files, written \in BOOLEAN : TelemetryDone(f, written)
  \/ \E f \in files : BackoffDone(f)
  \/ Return

\* no resolve request and no cache call from outside
ApiQuiet == rs = <<>> /\ dbCalls = <<>> /\ JrQuiet /\ FnQuiet

\* one run; the oracle is the call that fails
Init == CatInit(NumFiles, 1, {"classifying"}) /\ OrgQuiet /\ ApiQuiet

Next == CatNext

Spec == Init /\ [][Next]_vars

\* one run in which every awaited call can fail
InitItem == CatInit(NumFilesItem, 1, TrySites) /\ OrgQuiet /\ ApiQuiet

SpecItem == InitItem /\ [][Next]_vars

\* what one admitted item does next: the call it awaits returns or throws,
\* or its delay elapses
Settle(f) ==
  \/ HashDone(f)
  \/ LookupDone(f)
  \/ \E cat \in Categories : OracleDone(f, cat)
  \/ StoreDone(f)
  \/ \E cls \in ErrClasses : Throw(f, cls)
  \/ \E written \in BOOLEAN : TelemetryDone(f, written)
  \/ BackoffDone(f)

\* the event loop runs every continuation that is ready: the limiter admits
\* a queued item when a slot is free, every awaited call settles, and
\* Promise.all resolves when every item has settled
Fairness ==
  /\ WF_vars(CategorizeDirectory)
  /\ \A f \in 1..NumFilesItem : WF_vars(Admit(f)) /\ WF_vars(Settle(f))
  /\ WF_vars(Return)

\* one run in which every awaited call can fail and every call settles
SpecItemFair == InitItem /\ [][Next]_vars /\ Fairness

\* two consecutive runs over the same files, with a cache
InitRuns ==
  CatInit(NumFilesRuns, 2, TrySites) /\ hasCache /\ OrgQuiet /\ ApiQuiet

SpecRuns == InitRuns /\ [][Next]_vars

\* a live organize run under the rename strategy, and rollbacks
InitOrg == CatQuiet /\ OrgInit({"rename"}, {FALSE}) /\ ApiQuiet

SpecOrg == InitOrg /\ [][OrgStep]_vars

\* organize and rollback into a category directory that was already there
InitUndo == CatQuiet /\ UndoInit /\ ApiQuiet

SpecUndo == InitUndo /\ [][UndoStep]_vars

\* one organize call, any strategy, live or dry, with or without a session
InitPlace == CatQuiet /\ PlaceInit /\ ApiQuiet

SpecPlace == InitPlace /\ [][PlaceStep]_vars

\* one organize call under the rename strategy at the conflict limit
InitLimit == CatQuiet /\ LimitInit /\ ApiQuiet

SpecLimit == InitLimit /\ [][PlaceStep]_vars

\* resolve requests for one destination, in progress at the same time
InitRes == CatQuiet /\ ResInit /\ dbCalls = <<>> /\ JrQuiet /\ FnQuiet

SpecRes == InitRes /\ [][ResStep]_vars

\* get and set calls on an empty cache
InitDb == CatQuiet /\ OrgQuiet /\ ApiQuiet

SpecDb == InitDb /\ [][DbStep]_vars

\* two consecutive runs, with or without a cache, any oracle answer
InitOracle == CatInit(NumFilesRuns, 2, TrySites) /\ OrgQuiet /\ ApiQuiet

SpecOracle == InitOracle /\ [][CatNextAny]_vars

\* one call of sanitizeAndValidate on any short input
InitPv ==
  /\ CatQuiet /\ OrgQuiet /\ rs = <<>> /\ dbCalls = <<>> /\ JrQuiet
  /\ PvInit /\ CeQuiet /\ ScQuiet /\ FhQuiet

SpecPv == InitPv /\ [][PvCall]_vars

\* one failure classified for two files
InitCe ==
  /\ CatQuiet /\ OrgQuiet /\ rs = <<>> /\ dbCalls = <<>> /\ JrQuiet
  /\ PvQuiet /\ CeInit /\ ScQuiet /\ FhQuiet

SpecCe == InitCe /\ [][CeStep]_vars

\* a path categorized, its file replaced, the path categorized again
InitFh ==
  /\ CatQuiet /\ OrgQuiet /\ rs = <<>> /\ dbCalls = <<>> /\ JrQuiet
  /\ PvQuiet /\ CeQuiet /\ ScQuiet /\ FhInit

SpecFh == InitFh /\ [][FhStep]_vars

\* one call of scan
InitSc ==
  /\ CatQuiet /\ OrgQuiet /\ rs = <<>> /\ dbCalls = <<>> /\ JrQuiet
  /\ PvQuiet /\ CeQuiet /\ ScInit /\ FhQuiet

SpecSc == InitSc /\ [][ScStep]_vars

\* HistoryService instances that load, record, roll back and save
InitHist ==
  CatQuiet /\ OrgQuiet /\ rs = <<>> /\ dbCalls = <<>> /\ JrInit /\ FnQuiet

SpecHist == InitHist /\ [][JrStep]_vars

\* the sessions a journal can hold when it is saved
MaxTripRecords == 2
MaxTime == 2
OperationTypes == {"move", "create_directory"}
TripOperations == {Operation(ty, t) : ty \in OperationTypes, t \in 1..MaxTime}
TripRecords ==
  UNION {[1..n -> TripOperations] : n \in 0..MaxTripRecords}
TripSessions ==
  [operations : TripRecords, rolledBack : BOOLEAN,
   startTime : {Date(t) : t \in 1..MaxTime},
   endTime : {NoTime} \cup {Date(t) : t \in 1..MaxTime}]
EndedEmptySessions == {x \in TripSessions : x.operations = <<>>}

\* the instance that saves and the fresh instance that loads
Saver == 1
Loader == 2

\* one HistoryService holding sessions, a second one just constructed, no
\* document yet
InitTrip ==
  /\ CatQuiet /\ OrgQuiet /\ rs = <<>> /\ dbCalls = <<>> /\ FnQuiet
  /\ disk = NoDoc
  /\ \E x \in TripSessions, y \in EndedEmptySessions \cup {NoSession} :
       mem = [j \in Journals |->
                IF j = Saver THEN [EmptyMap EXCEPT ![1] = x, ![2] = y]
                ELSE EmptyMap]
  /\ nextId = 1
  /\ reversals = [id \in SessionIds |-> 0]
  /\ saved = {}
  /\ jlast = NoCall
  /\ loaded = {}
  /\ blind = FALSE

TripStep == JSave(Saver) \/ JNew(Loader) \/ JLoad(Loader)

SpecTrip == InitTrip /\ [][TripStep]_vars

(* ---------------------------------------------------------------------- *)
(* Claims about the classification scheduler                              *)
(* ---------------------------------------------------------------------- *)
\* number of entries of the returned list whose path is f
Entries(f) == Cardinality({i \in 1..Len(returned) : returned[i].path = f})

OnlyNetworkFaults(f) == \A i \in 1..Len(faults[f]) : faults[f][i] = "network"

\* C1: at every instant at most Limit work items are admitted (hashing,
\* cache lookup, oracle call, cache store, telemetry and backoff included),
\* hence at most Limit oracle calls are in flight.
C1_AdmissionBound ==
  /\ Cardinality(Admitted) <= Limit
  /\ Cardinality(InFlight) <= Limit

\* the limit is reached with an item waiting in the queue while an admitted
\* item sits in a backoff wait
C1_Witness ==
  /\ optConcurrency = 2
  /\ Cardinality(Admitted) = 2
  /\ \E f \in files : pc[f] = "queued"
  /\ \E f \in files : pc[f] = "backoff"
  /\ \E f \in files : pc[f] = "classifying"

\* C2: when categorizeDirectory returns, every scanned file has either
\* exactly one entry in the list and no failure report, or no entry and
\* exactly one failure report; the list holds entries of scanned files only.
C2_AccountedOnce ==
  phase = "returned" =>
    /\ \A f \in files :
         \/ Entries(f) = 1 /\ failReports[f] = <<>>
         \/ Entries(f) = 0 /\ Len(failReports[f]) = 1
    /\ \A i \in 1..Len(returned) : returned[i].path \in files

\* a run that returned one file and dropped the other
C2_Witness ==
  /\ phase = "returned"
  /\ Len(returned) = 1
  /\ \E f \in files : Len(failReports[f]) = 1 /\ Entries(f) = 0

\* every file of the previous run succeeded and is unchanged
PrevAllSucceeded == \A f \in files : prev[f].category # "none"
Unchanged(f) == prev[f].hash = getFileHash(content[f])

\* C3: with a cache, after a run in which every file succeeded every
\* returned result is in the cache under (path, hash); in a second run over
\* the unchanged files no oracle call and no cache write is made, and every
\* file whose hashing and cache lookup return is returned with the cached
\* category.
C3_SecondRunFromCache ==
  /\ (hasCache /\ phase = "returned" /\ Len(returned) = Cardinality(files)) =>
       \A i \in 1..Len(returned) :
          CacheGet(returned[i].path, returned[i].hash) = returned[i].category
  /\ (hasCache /\ run = 2 /\ PrevAllSucceeded /\ \A f \in files : Unchanged(f)) =>
       \A f \in files :
          /\ oracleCalls[f] = 0
          /\ cacheWrites[f] = 0
          /\ (phase = "returned" /\ faults[f] = <<>>) =>
                \E i \in 1..Len(returned) :
                   /\ returned[i].path = f
                   /\ returned[i].category = prev[f].category

\* the second run over an unchanged, cached file has returned it
C3_Witness ==
  /\ run = 2 /\ phase = "returned"
  /\ PrevAllSucceeded
  /\ \A f \in files : Unchanged(f) /\ prev[f].calls > 0
  /\ Len(returned) = Cardinality(files)

\* C4 as claimed: at most one oracle call per unchanged file over two runs.
C4_AtMostOneCall ==
  \A f \in files :
     (run = 2 /\ Unchanged(f)) => prev[f].calls + oracleCalls[f] <= 1

\* C4 as amended: over two runs an unchanged file gets at most
\* 2 * MAX_RETRIES oracle calls, at most one of them has its result stored
\* in the cache, and none is made in the second run once the first run has
\* stored one.
C4_AtMostOneStoredCall ==
  \A f \in files :
     (run = 2 /\ Unchanged(f)) =>
        /\ prev[f].calls + oracleCalls[f] <= 2 * MAX_RETRIES
        /\ prev[f].writes + cacheWrites[f] <= 1
        /\ prev[f].writes = 1 => oracleCalls[f] = 0

\* the first run failed after MAX_RETRIES calls and the second run, on the
\* unchanged file, called the oracle again and stored the result
C4_Witness ==
  \E f \in files :
     /\ run = 2 /\ Unchanged(f)
     /\ prev[f].calls = MAX_RETRIES
     /\ oracleCalls[f] > 0
     /\ cacheWrites[f] = 1

\* C5: an item all of whose attempts fail with a network error is attempted
\* exactly MAX_RETRIES times; before attempt k+1 it waits BASE_DELAY_MS * k,
\* so the waits increase strictly and stay within MAX_DELAY_MS; no wait
\* follows the last attempt, after which the item is reported failed.
C5_NetworkRetries ==
  \A f \in files :
     /\ attempt[f] <= MAX_RETRIES
     /\ \A k \in 1..Len(waits[f]) :
          /\ waits[f][k] = BASE_DELAY_MS * k
          /\ waits[f][k] <= MAX_DELAY_MS
          /\ k > 1 => waits[f][k] > waits[f][k - 1]
     /\ (pc[f] = "failed" /\ OnlyNetworkFaults(f)) =>
          /\ attempt[f] = MAX_RETRIES
          /\ Len(faults[f]) = MAX_RETRIES
          /\ Len(waits[f]) = MAX_RETRIES - 1
          /\ failReports[f] = <<"network">>
     /\ (pc[f] \in {"backoff"} \cup TrySites /\ OnlyNetworkFaults(f)) =>
          /\ Len(faults[f]) = IF pc[f] = "backoff" THEN attempt[f]
                               ELSE attempt[f] - 1
          /\ Len(waits[f]) = Len(faults[f])

\* an item failed after three network errors
C5_Witness ==
  \E f \in files :
     /\ pc[f] = "failed"
     /\ faults[f] = <<"network", "network", "network">>
     /\ waits[f] = <<1000, 2000>>

\* a failure of a class other than network has been classified for f
PermanentFault(f) ==
  faults[f] # <<>> /\ faults[f][Len(faults[f])] # "network"

\* C6: a failure of any class other than network fails the item at once:
\* from the step that classifies it on, the item waits no backoff and
\* makes no further oracle call, also after earlier network failures.
C6_NoRetryOfPermanent ==
  [][\A f \in files :
       /\ (run' = run /\ PermanentFault(f)') =>
             /\ pc'[f] \in {"telemetry", "failed"}
             /\ waits'[f] = waits[f]
             /\ oracleCalls'[f] = oracleCalls[f]
       /\ (run' = run /\ PermanentFault(f)) => faults'[f] = faults[f]]_vars

\* an item failed on a non-network error after a network error
C6_Witness ==
  \E f \in files :
     /\ pc[f] = "failed"
     /\ faults[f] = <<"network", "auth">>
     /\ failReports[f] = <<"auth">>

(* ---------------------------------------------------------------------- *)
(* Claims about the journal and the mover                                 *)
(* ---------------------------------------------------------------------- *)
Calls == DOMAIN rb
Records(sid) == sessions[sid].operations

\* C7: a rollback of a session that starts after a rollback of the same
\* session has returned throws "already rolled back" and attempts no
\* reversal; a rollback of an id without a session throws "not found" and
\* attempts no reversal.
C7_SecondRollbackFails ==
  \A c \in Calls :
     rb[c].pc # "idle" =>
        /\ rb[c].after =>
             /\ rb[c].pc = "threw"
             /\ rb[c].err = "already_rolled_back"
             /\ rb[c].log = <<>>
        /\ ~rb[c].known =>
             /\ rb[c].pc = "threw"
             /\ rb[c].err = "not_found"
             /\ rb[c].log = <<>>

\* a rollback that moved two files back has returned and a second call
\* for the session was made
C7_Witness ==
  \E c, d \in Calls :
     /\ rb[d].pc = "returned" /\ rb[d].reverted >= 4
     /\ rb[c].sid = rb[d].sid /\ rb[c].after /\ rb[c].pc = "threw"

\* C8: rollback attempts the records the session held at the call in exactly
\* the reverse of their order, each once, a move record by renaming its
\* destination to its source.
C8_ReverseOrder ==
  \A c \in Calls :
     rb[c].pc \in {"running", "returned"} =>
        LET n == Len(rb[c].ops)
            log == rb[c].log
        IN /\ Len(log) <= n
           /\ rb[c].pc = "returned" => Len(log) = n
           /\ \A j \in 1..Len(log) :
                /\ log[j].op = Records(rb[c].sid)[n + 1 - j]
                /\ log[j].op.type = "move" =>
                     /\ log[j].call = "rename"
                     /\ log[j].from = log[j].op.dst
                     /\ log[j].to = log[j].op.src

\* a rollback of a session with two move records has returned
C8_Witness ==
  \E c \in Calls :
     /\ rb[c].pc = "returned"
     /\ Cardinality({j \in 1..Len(rb[c].log) : rb[c].log[j].call = "rename"}) = 2

\* C9: a failed reversal does not stop rollback: on return every record was
\* attempted, the session is marked rolled back, operationsReverted plus
\* the number of errors is the number of records, and success is true
\* exactly when there is no error.
C9_RollbackContinues ==
  \A c \in Calls :
     rb[c].pc = "returned" =>
        /\ sessions[rb[c].sid].rolledBack
        /\ Len(rb[c].log) = Len(rb[c].ops)
        /\ rb[c].reverted + Len(rb[c].errors) = Len(rb[c].ops)
        /\ rb[c].success <=> rb[c].errors = <<>>

\* the first reversal attempted failed and a later one moved a file back
C9_Witness ==
  \E c \in Calls :
     /\ rb[c].pc = "returned"
     /\ rb[c].errors # <<>>
     /\ rb[c].log[1].op = rb[c].errors[1]
     /\ \E j \in 2..Len(rb[c].log) :
           /\ rb[c].log[j].call = "rename"
           /\ rb[c].log[j].to \in DOMAIN fsFiles

\* C10: after a live organize run under the rename strategy and a rollback
\* of its session, with no other change of the filesystem in between, every
\* file the session moved is at its original path with its original
\* content and none is at the destination it was moved to.
C10_RollbackRestores ==
  \A c \in Calls :
     ( /\ rb[c].pc = "returned" /\ rb[c].clean
       /\ envChanges = 0
       /\ \A d \in Calls \ {c} : rb[d].pc \in {"idle", "threw"} ) =>
        \A k \in 1..Len(Records(rb[c].sid)) :
           LET op == Records(rb[c].sid)[k]
           IN op.type = "move" =>
                /\ op.src \in DOMAIN fsFiles
                /\ fsFiles[op.src] = ContentOf(op.src)
                /\ op.dst \notin DOMAIN fsFiles

(* ---------------------------------------------------------------------- *)
(* Claims about organize                                                  *)
(* ---------------------------------------------------------------------- *)
\* the run is live and its session is known to the journal
LiveWithSession == ~org.dryRun /\ KnownSession(org.sid)

\* the destination organizeFile computes for the i-th input file
Intended(i) ==
  Append(Normalize(org.base \o org.input[i].category
                     \o org.input[i].subcategory, <<>>),
         org.input[i].path[Len(org.input[i].path)])

\* the session holds a move record for the source path
HasMoveRecord(sid, src) ==
  \E k \in 1..Len(Records(sid)) :
     Records(sid)[k].type = "move" /\ Records(sid)[k].src = src

\* C11: at every instant of a live organize run with a session, every
\* input file that has left its source path has a move record in the
\* session.
C11_WriteAhead ==
  LiveWithSession =>
     \A i \in 1..Len(org.input) :
        org.input[i].path \notin DOMAIN fsFiles =>
           HasMoveRecord(org.sid, org.input[i].path)

\* C12: organize creates no directory and places no file outside the base
\* directory.
C12_StaysInsideBase ==
  \A p \in fsDirs \cup DOMAIN fsFiles : p = <<>> \/ IsPrefix(Base, p)

\* no record is appended to any session in the step
NoRecordAppended ==
  \A s \in 1..Len(sessions) : sessions'[s].operations = sessions[s].operations

\* C13: in a dry run organize changes no file, no directory and no session
\* record, with or without a session id, and the outcome of every item whose
\* destination directory is inside the base directory is a success carrying
\* baseDir/category[/subcategory]/filename; any other outcome is a
\* security failure.
C13_DryRunFrame ==
  /\ [](org.dryRun =>
          \A i \in 1..Len(org.results) :
             /\ \/ org.results[i] = [success |-> TRUE,
                                     source |-> org.input[i].path,
                                     dest |-> Intended(i),
                                     skipped |-> FALSE, error |-> "none"]
                \/ /\ ~org.results[i].success
                   /\ org.results[i].error = "security"
             /\ IsPrefix(Base, Parent(Intended(i))) => org.results[i].success)
  /\ [][org.dryRun =>
          /\ fsFiles' = fsFiles
          /\ fsDirs' = fsDirs
          /\ NoRecordAppended]_vars

\* a dry run with a session id has returned the destinations of two files
C13_Witness ==
  /\ org.dryRun /\ org.pc = "done"
  /\ KnownSession(org.sid)
  /\ Len(org.results) = 2
  /\ \A i \in 1..2 : org.results[i].success

\* C14: under the skip strategy an item whose destination exists gets
\* the outcome success with skipped = true in a step that changes no file,
\* no directory and no record; the source of a skipped item stays at its
\* path with its content, the file at the destination keeps its content,
\* and the session holds no move record for the source.
C14_SkipOutcome ==
  /\ [](\A i \in 1..Len(org.results) :
          org.results[i].skipped =>
             /\ org.results[i].success
             /\ org.results[i].error = "none"
             /\ org.results[i].source \in DOMAIN fsFiles
             /\ fsFiles[org.results[i].source] = ContentOf(org.results[i].source)
             /\ FileExists(org.results[i].dest)
             /\ org.results[i].dest \in DOMAIN fsFiles =>
                  fsFiles[org.results[i].dest] = OldContent(org.results[i].dest)
             /\ KnownSession(org.sid) =>
                  ~HasMoveRecord(org.sid, org.results[i].source))
  /\ [][(org.strategy = "skip" /\ org.pc = "probe" /\ FileExists(org.dest)
         /\ org' # org) =>
          /\ org'.results = Append(org.results,
                                   [success |-> TRUE,
                                    source |-> org.input[org.i].path,
                                    dest |-> org.dest,
                                    skipped |-> TRUE, error |-> "none"])
          /\ fsFiles' = fsFiles
          /\ fsDirs' = fsDirs
          /\ NoRecordAppended]_vars

\* a live run with a session has skipped a file and has returned
C14_Witness ==
  /\ org.pc = "done" /\ LiveWithSession
  /\ \E i \in 1..Len(org.results) :
        /\ org.results[i].skipped
        /\ org.results[i].dest \in DOMAIN fsFiles

\* name(k).ext in the directory of p
Numbered(p, k) ==
  SubSeq(p, 1, Len(p) - 1) \o <<p[Len(p)] \o <<k>>>>

\* C15: under the rename strategy the path resolve returns does not exist;
\* it is the intended destination when that does not exist, and otherwise
\* name(k).ext for the smallest k >= 1 whose name does not exist.
C15_RenameNumbering ==
  [][(org.strategy = "rename" /\ org.pc = "probe" /\ org'.pc = "rename") =>
        /\ ~FileExists(org'.final)
        /\ ~FileExists(org.dest) => org'.final = org.dest
        /\ FileExists(org.dest) =>
             \E k \in 1..CONFLICT_LIMIT :
                /\ org'.final = Numbered(org.dest, k)
                /\ \A j \in 1..(k - 1) : FileExists(Numbered(org.dest, j))]_vars

\* a(1) was in use and resolve returned a(2)
C15_Witness ==
  /\ org.strategy = "rename" /\ org.pc = "rename"
  /\ org.final = Numbered(org.dest, 2)
  /\ FileExists(Numbered(org.dest, 1))

\* C16: under the rename strategy an item fails with the too-many-conflicts
\* error only when each of name(1) .. name(1000) is in use.
C16_FailsOnlyAfterLimit ==
  \A i \in 1..Len(org.results) :
     org.results[i].error = "too_many_conflicts" =>
        \A k \in 1..CONFLICT_LIMIT : FileExists(Numbered(Intended(i), k))

\* C17: resolve requests for the same destination that are in progress at
\* the same time return pairwise distinct paths.
C17_Injective ==
  \A r, q \in DOMAIN rs :
     (r # q /\ rs[r].pc \in {"returned", "placed"}
            /\ rs[q].pc \in {"returned", "placed"}) =>
        rs[r].final # rs[q].final

\* C18: organize returns exactly one outcome per input file, in input
\* order; an item whose placement throws gets a failure outcome that
\* carries the error, and the items after it are still processed.
C18_OneOutcomePerFile ==
  /\ Len(org.results) <= Len(org.input)
  /\ org.pc \in {"mkdir", "mkdirDone", "probe", "rename", "renamed"} =>
        Len(org.results) = org.i - 1
  /\ org.pc = "done" => Len(org.results) = Len(org.input)
  /\ \A i \in 1..Len(org.results) :
        /\ org.results[i].source = org.input[i].path
        /\ org.results[i].success <=> org.results[i].error = "none"

\* organize has returned a failure for the first file and a success for
\* the second
C18_Witness ==
  /\ org.pc = "done"
  /\ Len(org.results) = 2
  /\ ~org.results[1].success /\ org.results[1].error # "none"
  /\ org.results[2].success /\ ~org.results[2].skipped
  /\ ~org.dryRun

(* ---------------------------------------------------------------------- *)
(* Claims about the cache                                                 *)
(* ---------------------------------------------------------------------- *)
\* C19: getCachedCategorization with an empty hash returns a miss whatever
\* the cache holds, and setCachedCategorization of a result without a hash
\* leaves the cache as it was and returns normally.
C19_NoHashNeverCached ==
  \A i \in 1..Len(dbCalls) :
     dbCalls[i].hash = NoHash =>
        /\ dbCalls[i].op = "get" => dbCalls[i].result = "none"
        /\ dbCalls[i].op = "set" =>
             /\ dbCalls[i].after = dbCalls[i].before
             /\ dbCalls[i].result = "ok"

\* with an entry stored for the path, a set without a hash and then a get
\* without a hash were made
C19_Witness ==
  \E i, j \in 1..Len(dbCalls) :
     /\ i < j
     /\ dbCalls[i].op = "set" /\ dbCalls[i].hash = NoHash
     /\ dbCalls[i].before # <<>>
     /\ dbCalls[j].op = "get" /\ dbCalls[j].hash = NoHash
     /\ \E k \in DOMAIN dbCalls[j].before : k[1] = dbCalls[j].path

\* the set calls before call j that stored under the key of call j
StoredBefore(j) ==
  {i \in 1..(j - 1) :
     /\ dbCalls[i].op = "set"
     /\ dbCalls[i].path = dbCalls[j].path
     /\ dbCalls[i].hash = dbCalls[j].hash
     /\ dbCalls[i].hash # NoHash}

Latest(S) == CHOOSE i \in S : \A k \in S : k <= i

\* C20: a get returns a result only if a set stored under exactly its
\* (path, hash), and then the category of the latest such set; a set
\* leaves the entries of every other key, those of the same path with
\* another hash included, as they were.
C20_ExactKey ==
  /\ \A j \in 1..Len(dbCalls) :
        dbCalls[j].op = "get" =>
           IF StoredBefore(j) = {} THEN dbCalls[j].result = "none"
           ELSE dbCalls[j].result = dbCalls[Latest(StoredBefore(j))].category
  /\ \A i \in 1..Len(dbCalls) :
        dbCalls[i].op = "set" =>
           \A key \in DOMAIN dbCalls[i].before :
              key # <<dbCalls[i].path, dbCalls[i].hash>> =>
                 /\ key \in DOMAIN dbCalls[i].after
                 /\ dbCalls[i].after[key] = dbCalls[i].before[key]

\* after sets for one path under two hashes, the get under the first hash
\* returned the first category
C20_Witness ==
  /\ Len(dbCalls) = 3
  /\ dbCalls[1].op = "set" /\ dbCalls[2].op = "set" /\ dbCalls[3].op = "get"
  /\ dbCalls[1].path = dbCalls[2].path /\ dbCalls[3].path = dbCalls[1].path
  /\ dbCalls[1].hash # NoHash /\ dbCalls[2].hash # NoHash
  /\ dbCalls[1].hash # dbCalls[2].hash
  /\ dbCalls[1].category # dbCalls[2].category
  /\ dbCalls[3].hash = dbCalls[1].hash
  /\ dbCalls[3].result = dbCalls[1].category

(* ---------------------------------------------------------------------- *)
(* Claims about the persisted history document                            *)
(* ---------------------------------------------------------------------- *)
\* C21: a session's reversal sequence runs at most once over the session's
\* whole life, whatever load, save and rollback calls follow the first
\* rollback, on the same HistoryService or on one restored from the
\* document; and a session whose reversal has run is never shown as not
\* rolled back by the instance a rollback is asked of.
C21_ReversalAtMostOnce ==
  /\ \A id \in SessionIds : reversals[id] <= 1
  /\ jlast.op = "load" =>
       \A id \in SessionIds :
         (reversals[id] >= 1 /\ Has(mem[jlast.j], id))
           => mem[jlast.j][id].rolledBack


\* C22: when two HistoryService instances backed by the same document each
\* load, mutate and save, in any interleaving, the document holds every
\* session that either of them has saved: no session is lost.
C22_NoSessionLost ==
  ~blind => \A id \in saved : disk.version = "1.0" /\ Has(disk.sessions, id)

\* C23: load() of a document whose version is not '1.0' is rejected as a
\* whole: the instance's session map is exactly what it was before the
\* call, none of the document's sessions is in it.
C23_ForeignVersionRejected ==
  (jlast.op = "load" /\ jlast.doc.version \notin {"1.0", "none"})
    => mem[jlast.j] = jlast.before

\* load() has just returned from a version 2.0 document, called on an
\* instance that holds a session
C23_Witness ==
  /\ jlast.op = "load"
  /\ jlast.doc = ForeignDoc
  /\ \E id \in SessionIds : Has(jlast.before, id)

\* C33: save() followed by load() into a fresh journal is a round trip:
\* the loaded journal holds exactly the sessions the saving journal held,
\* each with the same id, rolled-back flag, start and end times, and the
\* same records in the same order.
C33_SaveLoadRoundTrip ==
  (jlast.op = "load" /\ jlast.doc.version = "1.0" /\ jlast.before = EmptyMap)
    => \A id \in SessionIds :
         /\ Has(mem[Loader], id) <=> Has(mem[Saver], id)
         /\ Has(mem[Saver], id) =>
              /\ mem[Loader][id].rolledBack = mem[Saver][id].rolledBack
              /\ mem[Loader][id].startTime = mem[Saver][id].startTime
              /\ mem[Loader][id].endTime = mem[Saver][id].endTime
              /\ mem[Loader][id].operations = mem[Saver][id].operations

\* a fresh instance has just loaded a document holding two sessions, one
\* rolled back and ended with two records, the other not ended
C33_Witness ==
  /\ jlast.op = "load" /\ jlast.doc.version = "1.0"
  /\ jlast.before = EmptyMap
  /\ Has(mem[Loader], 1) /\ Has(mem[Loader], 2)
  /\ mem[Loader][1].rolledBack
  /\ Len(mem[Loader][1].operations) = 2
  /\ mem[Loader][1].endTime # NoTime
  /\ mem[Loader][2].endTime = NoTime

\* C34: scan(dir) succeeds and returns every eligible file (not hidden,
\* safe name, not a directory) whenever the directory holds at most
\* MAX_FILES eligible files; it fails with the too-many-files error only
\* when the directory holds more than MAX_FILES eligible files.
C34_ScanUpToMaxFiles ==
  /\ sc.pc = "tooMany" => EligibleCount(sc.dir) > MAX_FILES
  /\ sc.pc = "returned" => sc.length = EligibleCount(sc.dir)

\* the file categorized before the one at the path now
Earlier == fh.before.file

\* two files of the same size with the same bytes
SameContent(f, g) == f.size = g.size /\ f.head = g.head /\ f.tail = g.tail

\* C35: getFileHash: for a file of size at most 100 MB (boundary included)
\* the fingerprint depends on the full content only; for a file larger than
\* 100 MB it depends only on the first 10 MB, the size and the modification
\* time, so two such files that differ only after the first 10 MB and have
\* equal size and mtime get the same fingerprint, and the cached
\* classification of one is served for the other at the same path.
C35_FingerprintDependsOn ==
  (fh.pc = "done" /\ fh.before # NoBefore) =>
     /\ (fh.file.size <= MAX_FULL_HASH_SIZE /\ SameContent(fh.file, Earlier))
          => fh.hash = fh.before.hash
     /\ (fh.file.size > MAX_FULL_HASH_SIZE /\ Earlier.size = fh.file.size
          /\ Earlier.head = fh.file.head
          /\ Earlier.mtimeMs = fh.file.mtimeMs)
          => /\ fh.hash = fh.before.hash
             /\ fh.fromCache
             /\ fh.category = fh.before.category

\* a file larger than 100 MB was categorized, replaced by one that differs
\* only after the first 10 MB, and the path categorized again
C35_Witness ==
  /\ fh.pc = "done" /\ fh.before # NoBefore
  /\ fh.file.size > MAX_FULL_HASH_SIZE
  /\ Earlier.size = fh.file.size /\ Earlier.head = fh.file.head
  /\ Earlier.mtimeMs = fh.file.mtimeMs
  /\ Earlier.tail # fh.file.tail
  /\ fh.fromCache

\* C37: when the oracle call of an item has returned successfully, the item
\* appears in the returned list with the oracle's category even when the
\* cache store fails: from the moment the answer awaits the store, the
\* item's next step makes it Done with that category; it is never failed
\* and never sent back for another oracle call.
C37_StoreFailureKeepsItem ==
  [][\A f \in files :
       (run' = run /\ pc[f] = "storing" /\ pc'[f] # "storing")
         => /\ pc'[f] = "done"
            /\ outcome'[f] =
                 <<[ok |-> TRUE,
                    file |-> [path |-> f, category |-> pending[f],
                              hash |-> hash[f]]]>>]_vars

\* C38: rollback never destroys data the session did not move: once
\* organize has returned, a step of rollback leaves every file somebody
\* else created, such as one now at a record's original source path, where
\* it is and as it is; reverting the move onto it does not overwrite or
\* remove it.
C38_RollbackKeepsForeignFiles ==
  [][(org.pc = "done" /\ rb' # rb) =>
       \A p \in DOMAIN fsFiles :
         fsFiles[p] = NewContent(p)
           => (p \in DOMAIN fsFiles' /\ fsFiles'[p] = fsFiles[p])]_vars

\* C39: rollback removes only directories the session created: the
\* category directory Misc, which was there (empty or not) when the
\* session started, is still there after organize and rollback.
C39_ExistingDirectoryKept ==
  (org.pc = "done" /\ \E c \in 1..MaxRollbacks : rb[c].pc = "returned" /\ rb[c].clean)
    => Parent(Conflict) \in fsDirs

\* C40: once a session is rolled back its record sequence never changes:
\* recordOperation on a rolled-back session appends nothing.
C40_RolledBackSessionFrozen ==
  [][\A j \in Journals, id \in SessionIds :
       (jlast'.op = "record" /\ Has(mem[j], id) /\ mem[j][id].rolledBack
        /\ Has(mem'[j], id))
         => mem'[j][id].operations = mem[j][id].operations]_vars

(* ---------------------------------------------------------------------- *)
(* Claims about categories, recorded mutations and the preview            *)
(* ---------------------------------------------------------------------- *)
\* C24: every entry categorizeDirectory returns has a non-empty category,
\* whatever the oracle or the cache answered, the empty string included.
C24_CategoryNonEmpty ==
  \A i \in 1..Len(returned) : returned[i].category # ""

\* the directories that can be there before organize is called
PreDirs == {<<>>, Base, Parent(Conflict), Conflict}

\* the session holds a create_directory record for the directory
HasDirRecord(sid, dir) ==
  \E k \in 1..Len(Records(sid)) : Records(sid)[k] = DirRecord(dir)

\* the move records of the session for the source path
MoveRecordsOf(sid, src) ==
  {k \in 1..Len(Records(sid)) :
     Records(sid)[k].type = "move" /\ Records(sid)[k].src = src}

\* C25: when a live organize run with a known session has returned, every
\* directory it created, a parent category directory created on the way to
\* category/subcategory included, has a create_directory record, and every
\* file it moved has exactly one move record, with its source and its
\* final destination.
C25_EveryMutationRecorded ==
  (LiveWithSession /\ org.pc = "done") =>
     /\ \A d \in fsDirs \ PreDirs : HasDirRecord(org.sid, d)
     /\ \A i \in 1..Len(org.results) :
           (org.results[i].success /\ ~org.results[i].skipped) =>
              /\ Cardinality(MoveRecordsOf(org.sid, org.results[i].source)) = 1
              /\ \A k \in MoveRecordsOf(org.sid, org.results[i].source) :
                    Records(org.sid)[k].dst = org.results[i].dest

\* C27: for the same input and filesystem, the destination a dry run
\* reports for a file, baseDir/category[/subcategory]/filename, is the
\* destination a live run under the rename strategy moves the file to,
\* also when that destination is already in use.
C27_PreviewIsLive ==
  (~org.dryRun /\ org.strategy = "rename") =>
     \A i \in 1..Len(org.results) :
        (org.results[i].success /\ ~org.results[i].skipped) =>
           org.results[i].dest = Intended(i)

\* the moves of the work-item state machine: Pending, Hashing, CacheCheck
\* (skipped without a cache), Classifying, with the cache store and the
\* telemetry report as parts of Success and PermanentFailure, Retry, Done
\* and Failed
ItemMoves ==
  {<<"queued", "hashing">>,
   <<"hashing", "lookup">>, <<"hashing", "classifying">>,
   <<"lookup", "done">>, <<"lookup", "classifying">>,
   <<"classifying", "storing">>, <<"classifying", "done">>,
   <<"storing", "done">>,
   <<"classifying", "backoff">>, <<"backoff", "classifying">>,
   <<"classifying", "telemetry">>, <<"classifying", "failed">>,
   <<"telemetry", "failed">>}

\* C28: within a run each work item moves only along Pending -> Hashing ->
\* CacheCheck -> (CacheHit -> Done | CacheMiss -> Classifying -> (Success
\* -> Done | TransientFailure -> Retry -> Classifying | PermanentFailure ->
\* Failed)): a retry re-enters Classifying directly, so hashing and the
\* cache check happen once per item, and Done and Failed are terminal.
C28_ItemStateMachine ==
  [][\A f \in files :
       (run' = run /\ pc'[f] # pc[f]) => <<pc[f], pc'[f]>> \in ItemMoves]_vars

\* C29: when every hash, cache and oracle call returns, categorizeDirectory
\* terminates: a queued item is eventually admitted, every item reaches
\* Done or Failed and the call returns, and no item makes more than
\* MAX_RETRIES oracle calls.
C29_Terminates ==
  /\ (phase = "running") ~>
        (phase = "returned" /\ \A f \in files : pc[f] \in {"done", "failed"})
  /\ \A f \in 1..NumFilesItem :
        (phase = "running" /\ pc[f] = "queued") ~> (pc[f] # "queued")
  /\ [](\A f \in files : oracleCalls[f] <= MAX_RETRIES)

\* the call has returned after one item, admitted second under a limit of
\* one, used all its oracle calls and failed
C29_Witness ==
  /\ phase = "returned"
  /\ Limit = 1
  /\ pc[1] = "done"
  /\ pc[2] = "failed" /\ oracleCalls[2] = MAX_RETRIES

\* C30: of two rollback calls for the same session that overlap, at most
\* one executes the reversal; the other attempts no filesystem operation.
C30_OneReversal ==
  \A c, d \in Calls :
     (c # d /\ rb[c].sid = rb[d].sid) =>
        ~(rb[c].log # <<>> /\ rb[d].log # <<>>)

(* ---------------------------------------------------------------------- *)
(* Claims about PathValidator                                             *)
(* ---------------------------------------------------------------------- *)
RECURSIVE WithoutNulls(_)
\* the input with its null bytes left out
WithoutNulls(s) ==
  IF s = <<>> THEN <<>>
  ELSE IF Head(s) = NUL THEN WithoutNulls(Tail(s))
  ELSE <<Head(s)>> \o WithoutNulls(Tail(s))

\* t occurs in s from position i on
OccursAt(s, t, i) ==
  /\ i >= 1 /\ i + Len(t) - 1 <= Len(s)
  /\ \A k \in 1..Len(t) : s[i + k - 1] = t[k]

\* exactly '..', a leading '../' or '..\', a trailing '/..' or '\..', or
\* '/../' or '\..\' anywhere
TraversalShape(s) ==
  \/ s = <<".", ".">>
  \/ \E sep \in {"/", "\\"} :
        \/ OccursAt(s, <<".", ".", sep>>, 1)
        \/ OccursAt(s, <<sep, ".", ".">>, Len(s) - 2)
        \/ \E i \in 1..Len(s) : OccursAt(s, <<sep, ".", ".", sep>>, i)

\* C26: sanitizeAndValidate rejects, as a path traversal, every input that
\* once its null bytes are removed is exactly '..', starts with '../' or
\* '..\', ends with '/..' or '\..', or contains '/../' or '\..\'; and it
\* accepts '.', returning the working directory.
C26_TraversalRejected ==
  pv.pc = "returned" =>
     /\ TraversalShape(WithoutNulls(pv.input)) =>
           (~pv.result.ok /\ pv.result.error = "Path traversal")
     /\ pv.input = <<".">> =>
           (pv.result.ok /\ pv.result.path = Cwd(pv.isWindows))

\* '../' with a null byte between its dots has been rejected
C26_Witness ==
  /\ pv.pc = "returned"
  /\ pv.input = <<".", NUL, ".", "/">>
  /\ ~pv.result.ok

(* ---------------------------------------------------------------------- *)
(* Claims about the error classifier                                      *)
(* ---------------------------------------------------------------------- *)
\* the classes of the classifier, in the order their texts are looked for
ClassOrder ==
  <<[words |-> DbWords, class |-> "unknown"],
    [words |-> NetWords, class |-> "network"],
    [words |-> LimitWords, class |-> "api_limit"],
    [words |-> AuthWords, class |-> "auth"],
    [words |-> ServerWords, class |-> "api_error"]>>

\* the message holds a text of the group, in any letter case
Holds(message, words) ==
  \E i \in DOMAIN message :
     message[i] \in words \/ (message[i] = "ETIMEDOUT" /\ "etimedout" \in words)

\* the class of the first group of ClassOrder the message holds a text of
FirstMatch(message) ==
  LET hits == {g \in DOMAIN ClassOrder : Holds(message, ClassOrder[g].words)}
  IN IF hits = {} THEN "unknown"
     ELSE ClassOrder[CHOOSE g \in hits : \A h \in hits : g <= h].class

\* C31 as stated: every failure that reaches the catch block gets one class
\* of the six, by first match in the order database, network/timeout, rate
\* limit, auth, server error, else unknown; and every timed-out call is
\* classified network.
C31_TimeoutIsNetwork ==
  ce.pc = "classified" =>
     \A k \in 1..2 :
        /\ ce.thrown[k].isError =>
              ce.classes[k] = FirstMatch(ce.thrown[k].message)
        /\ (/\ ce.thrown[k].isError
            /\ Holds(ce.thrown[k].message, {"timeout", "etimedout"}))
             => ce.classes[k] = "network"

\* C31: every failure that reaches the catch block, whichever awaited call
\* raised it, gets exactly one class of {network, api_limit, auth,
\* api_error, invalid_file, unknown}: the class of the first match in the
\* order database, network/timeout, rate limit, auth, server error, and
\* unknown when nothing matches or the value is not an Error; a timeout
\* error whose message names no database is classified network.
C31_ClassifierTotal ==
  ce.pc = "classified" =>
     \A k \in 1..2 :
        /\ ce.classes[k] \in
              {"network", "api_limit", "auth", "api_error", "invalid_file",
               "unknown"}
        /\ ce.thrown[k].isError =>
              ce.classes[k] = FirstMatch(ce.thrown[k].message)
        /\ ~ce.thrown[k].isError => ce.classes[k] = "unknown"
        /\ (/\ ce.thrown[k].isError
            /\ Holds(ce.thrown[k].message, {"timeout", "etimedout"})
            /\ ~Holds(ce.thrown[k].message, DbWords))
             => ce.classes[k] = "network"

\* a cache lookup that failed with Node's ETIMEDOUT code and a 500 was
\* classified network
C31_Witness ==
  /\ ce.pc = "classified"
  /\ ce.site = "lookup"
  /\ ce.message = <<"ETIMEDOUT", "500">>
  /\ ce.classes[1] = "network"

RECURSIVE AttemptsFrom(_, _)
\* the attempts an item makes when every attempt fails with the class
AttemptsFrom(cls, att) ==
  IF ShouldRetry(cls, att) THEN AttemptsFrom(cls, att + 1) ELSE att

\* C36: the class of a failed attempt, and with it the number of attempts,
\* depends only on the failure raised and not on the path of the file: two
\* files that differ only in name and get the same failure get the same
\* class and the same number of attempts.
C36_ClassIgnoresPath ==
  ce.pc = "classified" =>
     /\ ce.classes[1] = ce.classes[2]
     /\ AttemptsFrom(ce.classes[1], 1) = AttemptsFrom(ce.classes[2], 1)

(* ---------------------------------------------------------------------- *)
(* Claims about telemetry and the cache store                             *)
(* ---------------------------------------------------------------------- *)
\* the failures of the item in this run that were classified unknown
UnknownFaults(f) == {i \in DOMAIN faults[f] : faults[f][i] = "unknown"}

\* C32: with a telemetry collaborator, an item is reported to it exactly
\* when a failure of the item is classified unknown, once per such item and
\* before the failure is reported on the failure channel; failures of other
\* classes are never reported; and whether the report could be written or
\* not, the item ends failed with reason unknown and the run goes on.
C32_TelemetryExactlyUnknown ==
  \A f \in files :
     /\ telemetry[f] = IF hasTelemetry THEN Cardinality(UnknownFaults(f)) ELSE 0
     /\ telemetry[f] <= 1
     /\ reports[f] <= telemetry[f]
     /\ pc[f] = "telemetry" => (failReports[f] = <<>> /\ outcome[f] = <<>>)
     /\ (hasTelemetry /\ failReports[f] = <<"unknown">>) => telemetry[f] = 1
     /\ (telemetry[f] = 1 /\ pc[f] # "telemetry") =>
           /\ pc[f] = "failed"
           /\ failReports[f] = <<"unknown">>
           /\ outcome[f] = <<[ok |-> FALSE, file |-> NoFile]>>

\* the run has returned the second item, which succeeded after a network
\* failure and was never reported, although the report about the first
\* item could not be written
C32_Witness ==
  /\ phase = "returned"
  /\ hasTelemetry
  /\ telemetry[1] = 1 /\ reports[1] = 0 /\ failReports[1] = <<"unknown">>
  /\ pc[2] = "done" /\ telemetry[2] = 0 /\ faults[2] = <<"network">>
  /\ Len(returned) = 1

====
